---- MODULE Spec2Model ----
(***************************************************************************)
(* Model of the boids-3d flocking simulation: the Octree spatial index     *)
(* (src/src/util/Octree.js), the vector helpers it uses (vector.js, kept   *)
(* as src/unnamed/part_000) and the Boids integrator (Boids.js, kept as    *)
(* the second half of src/src/util/matrix.js).                             *)
(*                                                                         *)
(* Numbers.  JavaScript numbers are modelled in fixed point: the integer n *)
(* stands for the real n / UNIT.  Sums and differences are exact; a        *)
(* product or quotient is rounded to the nearest multiple of 1 / UNIT.     *)
(* Squared magnitudes (vec_smag, radius ** 2) are carried unrounded, in    *)
(* units of 1 / UNIT^2, so every distance comparison of the code is exact. *)
(* UNIT is a multiple of 2^4 * 100: the halvings of #subdivide are exact   *)
(* for every depth the model reaches, as they are in binary floating       *)
(* point, and 0.99, 0.05 and 0.005 are representable.                      *)
(*                                                                         *)
(* Vectors are 3-tuples, axes 1..3 for the code's 0..2.  A helper called   *)
(* with an output buffer returns the buffer's new contents; the caller     *)
(* binds the result to the buffer the code passes.                         *)
(***************************************************************************)
EXTENDS Integers, Sequences, FiniteSets, TLC

VARIABLES
    positions,      \* Boids.#positions  : [0..N-1 -> Vector3]
    velocities,     \* Boids.#velocities
    accelerations,  \* Boids.#accelerations
    neighborCount,  \* Boids.#neighborCount
    octree,         \* Boids.#octree / the Octree under test
    params,         \* N, the tunables and the bounds of Boids, one field each
    scratch,        \* #temp_vec3_1..3, #alignment, #cohesion, #separation
    pc,             \* position inside the running call
    cursor,         \* loop variable i of the running pass of step
    dt,             \* argument of the running step(dt)
    steps,          \* step calls since the last init
    dragged,        \* per agent: vel after line 1038, before the speed clamp
    integrated,     \* per agent: pos after line 1045, before #constrainBoid
    lastCall        \* the last public Octree call and what it returned

vars == <<positions, velocities, accelerations, neighborCount, octree, params,
          scratch, pc, cursor, dt, steps, dragged, integrated, lastCall>>

----------------------------------------------------------------------------
(* Fixed-point arithmetic                                                  *)

UNIT == 16 * 25

Axes == 1..3

Abs(x) == IF x < 0 THEN -x ELSE x

Min2(a, b) == IF a < b THEN a ELSE b

Max2(a, b) == IF a > b THEN a ELSE b

\* a / b rounded to the nearest integer, halves away from zero (b > 0)
RoundDiv(a, b) ==
    IF a >= 0 THEN (2 * a + b) \div (2 * b) ELSE -((2 * (-a) + b) \div (2 * b))

\* product of two fixed-point numbers
FMul(x, y) == RoundDiv(x * y, UNIT)

RECURSIVE SqrtSearch(_, _, _)
SqrtSearch(n, lo, hi) ==
    IF lo >= hi THEN lo
    ELSE LET mid == (lo + hi + 1) \div 2
         IN IF mid * mid <= n THEN SqrtSearch(n, mid, hi)
            ELSE SqrtSearch(n, lo, mid - 1)

\* Math.sqrt of a non-negative integer, rounded to the nearest integer
Sqrt(n) ==
    LET r == SqrtSearch(n, 0, Min2(n, 46340))
    IN IF n - r * r > r THEN r + 1 ELSE r

----------------------------------------------------------------------------
(* vector.js                                                               *)

vec3(x, y, z) == <<x, y, z>>

vec_smag(v) == v[1] * v[1] + v[2] * v[2] + v[3] * v[3]

vec_mag(v) == Sqrt(vec_smag(v))

vec_add(a, b) == <<a[1] + b[1], a[2] + b[2], a[3] + b[3]>>

vec_sub(a, b) == <<a[1] - b[1], a[2] - b[2], a[3] - b[3]>>

\* b is a number in every call the model covers
vec_mul(a, b) == <<FMul(a[1], b), FMul(a[2], b), FMul(a[3], b)>>

\* sum of products, in units of 1 / UNIT^2
vec_dot(a, b) == a[1] * b[1] + a[2] * b[2] + a[3] * b[3]

\* out is the buffer passed as `out`, or <<>> when none is passed (o = []).
\* 1e-8 is below the resolution 1 / UNIT: |mag| < 1e-8 iff v is the zero
\* vector.  A long vector is scaled down by an integer factor before its
\* magnitude is taken, which keeps the squares within 32 bits and leaves
\* the direction unchanged.
vec_norm(v, out) ==
    IF v = <<0, 0, 0>> THEN out
    ELSE LET f == Max2(Abs(v[1]), Max2(Abs(v[2]), Abs(v[3]))) \div 16384 + 1
             w == <<RoundDiv(v[1], f), RoundDiv(v[2], f), RoundDiv(v[3], f)>>
             mag == vec_mag(w)
         IN <<RoundDiv(w[1] * UNIT, mag), RoundDiv(w[2] * UNIT, mag),
              RoundDiv(w[3] * UNIT, mag)>>

----------------------------------------------------------------------------
(* Octree.js                                                               *)

MAX_CAPACITY == 4

HALF == UNIT \div 2

\* #children === null is modelled by children = <<>>
Octree(center, size) ==
    [center |-> center, size |-> size, indices |-> <<>>, children |-> <<>>]

isLeaf(node) == node.children = <<>>

boxMin(node) == vec_sub(node.center, vec_mul(node.size, HALF))

boxMax(node) == vec_add(node.center, vec_mul(node.size, HALF))

contains(node, point) ==
    LET min == boxMin(node)
        max == boxMax(node)
    IN /\ point[1] >= min[1] /\ point[1] < max[1]
       /\ point[2] >= min[2] /\ point[2] < max[2]
       /\ point[3] >= min[3] /\ point[3] < max[3]

intersects(node, center, radius) ==
    LET min == boxMin(node)
        max == boxMax(node)
        closest == vec3(Min2(Max2(center[1], min[1]), max[1]),
                        Min2(Max2(center[2], min[2]), max[2]),
                        Min2(Max2(center[3], min[3]), max[3]))
        delta == vec_sub(closest, center)
    IN vec_smag(delta) <= radius * radius

RECURSIVE insert(_, _, _)

\* the loop of line 213: this.insert(boids, index) for each index of #indices
RECURSIVE redistribute(_, _, _)
redistribute(node, pos, k) ==
    IF k > Len(node.indices) THEN node
    ELSE redistribute(insert(node, pos, node.indices[k]).node, pos, k + 1)

\* variant: the children are offset by the half size, not the quarter size
childCenters_halfOffset(node) ==
    LET q == vec_mul(node.size, HALF)
        c == node.center
    IN << vec_add(c, vec3( q[1],  q[2],  q[3])),
          vec_add(c, vec3( q[1], -q[2],  q[3])),
          vec_add(c, vec3( q[1],  q[2], -q[3])),
          vec_add(c, vec3( q[1], -q[2], -q[3])),
          vec_add(c, vec3(-q[1],  q[2],  q[3])),
          vec_add(c, vec3(-q[1], -q[2],  q[3])),
          vec_add(c, vec3(-q[1],  q[2], -q[3])),
          vec_add(c, vec3(-q[1], -q[2], -q[3])) >>

childCenters(node) ==
    LET q == vec_mul(vec_mul(node.size, HALF), HALF)
        c == node.center
    IN << vec_add(c, vec3( q[1],  q[2],  q[3])),
          vec_add(c, vec3( q[1], -q[2],  q[3])),
          vec_add(c, vec3( q[1],  q[2], -q[3])),
          vec_add(c, vec3( q[1], -q[2], -q[3])),
          vec_add(c, vec3(-q[1],  q[2],  q[3])),
          vec_add(c, vec3(-q[1], -q[2],  q[3])),
          vec_add(c, vec3(-q[1],  q[2], -q[3])),
          vec_add(c, vec3(-q[1], -q[2], -q[3])) >>

\* variant: a child that comes out of the redistribution full is split at
\* once, a second subdivision within the same insert
subdivide_splitsFullChild(node, pos) ==
    IF ~isLeaf(node) THEN [threw |-> TRUE, node |-> node]
    ELSE LET hs == vec_mul(node.size, HALF)
             cc == childCenters(node)
             moved == redistribute([node EXCEPT
                         !.children = [k \in 1..8 |-> Octree(cc[k], hs)]], pos, 1)
             again(c) ==
                 IF Len(c.indices) < MAX_CAPACITY THEN c
                 ELSE [redistribute([c EXCEPT
                           !.children = [k \in 1..8 |->
                               Octree(childCenters(c)[k], vec_mul(c.size, HALF))]],
                           pos, 1) EXCEPT !.indices = <<>>]
         IN [threw |-> FALSE,
             node |-> [moved EXCEPT !.indices = <<>>,
                          !.children = [k \in 1..8 |-> again(moved.children[k])]]]

\* variant: the guard of line 198 is inverted, a leaf is refused
subdivide_refusesLeaf(node, pos) ==
    IF isLeaf(node) THEN [threw |-> TRUE, node |-> node]
    ELSE [threw |-> FALSE, node |-> node]

\* variant: the node keeps its own indices after handing them down
subdivide_keepsIndices(node, pos) ==
    IF ~isLeaf(node) THEN [threw |-> TRUE, node |-> node]
    ELSE LET hs == vec_mul(node.size, HALF)
             cc == childCenters(node)
             split == [node EXCEPT
                         !.children = [k \in 1..8 |-> Octree(cc[k], hs)]]
         IN [threw |-> FALSE, node |-> redistribute(split, pos, 1)]

subdivide(node, pos) ==
    IF ~isLeaf(node) THEN [threw |-> TRUE, node |-> node]
    ELSE LET hs == vec_mul(node.size, HALF)
             cc == childCenters(node)
             split == [node EXCEPT
                         !.children = [k \in 1..8 |-> Octree(cc[k], hs)]]
             moved == redistribute(split, pos, 1)
         IN [threw |-> FALSE, node |-> [moved EXCEPT !.indices = <<>>]]

\* the loop of lines 91-94 from child k on; a falsy result moves on
RECURSIVE insertIntoChildren(_, _, _, _)
insertIntoChildren(node, pos, index, k) ==
    IF k > Len(node.children) THEN [ret |-> "false", node |-> node]
    ELSE LET r == insert(node.children[k], pos, index)
             n2 == [node EXCEPT !.children[k] = r.node]
         IN IF r.ret \in {"true", "throw"} THEN [ret |-> r.ret, node |-> n2]
            ELSE insertIntoChildren(n2, pos, index, k + 1)

\* variant: the capacity test is > instead of >=
insert_capacityOffByOne(node, pos, index) ==
    IF ~contains(node, pos[index]) THEN [ret |-> "false", node |-> node]
    ELSE IF isLeaf(node)
         THEN IF Len(node.indices) > MAX_CAPACITY
              THEN LET s == subdivide(node, pos)
                   IN [ret |-> IF s.threw THEN "throw" ELSE "undefined",
                       node |-> s.node]
              ELSE [ret |-> "true",
                    node |-> [node EXCEPT !.indices = Append(@, index)]]
         ELSE insertIntoChildren(node, pos, index, 1)

\* ret is the value the call evaluates to: "true", "false", "undefined"
\* (the function ends without a return statement) or "throw"
insert(node, pos, index) ==
    IF ~contains(node, pos[index]) THEN [ret |-> "false", node |-> node]
    ELSE IF isLeaf(node)
         THEN IF Len(node.indices) >= MAX_CAPACITY
              THEN LET s == subdivide(node, pos)
                   IN [ret |-> IF s.threw THEN "throw" ELSE "undefined",
                       node |-> s.node]
              ELSE [ret |-> "true",
                    node |-> [node EXCEPT !.indices = Append(@, index)]]
         ELSE insertIntoChildren(node, pos, index, 1)

RECURSIVE queryRadius(_, _, _, _, _)

RECURSIVE queryLeaf(_, _, _, _, _, _)
queryLeaf(node, pos, center, radius, found, k) ==
    IF k > Len(node.indices) THEN found
    ELSE LET index == node.indices[k]
             d2 == vec_smag(vec_sub(pos[index], center))
         IN queryLeaf(node, pos, center, radius,
                      IF d2 <= radius * radius THEN Append(found, index)
                      ELSE found, k + 1)

RECURSIVE queryChildren(_, _, _, _, _, _)
queryChildren(node, pos, center, radius, found, k) ==
    IF k > Len(node.children) THEN found
    ELSE queryChildren(node, pos, center, radius,
            queryRadius(node.children[k], pos, center, radius, found), k + 1)

queryRadius(node, pos, center, radius, found) ==
    IF ~intersects(node, center, radius) THEN found
    ELSE IF isLeaf(node) THEN queryLeaf(node, pos, center, radius, found, 1)
         ELSE queryChildren(node, pos, center, radius, found, 1)

\* the fold of lines 148-151 of one component d against the extent s
foldAxis(d, s) ==
    IF d > FMul(s, HALF) THEN d - s
    ELSE IF d < FMul(-s, HALF) THEN d + s
    ELSE d

wrapDelta(d, size) ==
    <<foldAxis(d[1], size[1]), foldAxis(d[2], size[2]), foldAxis(d[3], size[3])>>

RECURSIVE filterWrapped(_, _, _, _, _, _, _)
filterWrapped(node, pos, center, radius, cand, found, k) ==
    IF k > Len(cand) THEN found
    ELSE LET index == cand[k]
             d == wrapDelta(vec_sub(pos[index], center), node.size)
         IN filterWrapped(node, pos, center, radius, cand,
                          IF vec_smag(d) <= radius * radius
                          THEN Append(found, index) ELSE found, k + 1)

\* variant: every agent of the table is a candidate of the wrapped test
queryRadiusWrapped_allAgents(node, pos, center, radius) ==
    filterWrapped(node, pos, center, radius,
                  [k \in 1..Cardinality(DOMAIN pos) |-> k - 1], <<>>, 1)

queryRadiusWrapped(node, pos, center, radius) ==
    LET potentialNeighbors == queryRadius(node, pos, center, radius, <<>>)
    IN filterWrapped(node, pos, center, radius, potentialNeighbors, <<>>, 1)

----------------------------------------------------------------------------
(* The Octree on its own: a root volume, a growing position table and the  *)
(* public calls insert, queryRadius and queryRadiusWrapped.                *)

MaxInserts == 6

\* root of the scenarios of the specification: centre (0,0,0), size (2,2,2)
TreeRoot == Octree(vec3(0, 0, 0), vec3(2 * UNIT, 2 * UNIT, 2 * UNIT))

\* (-0.99,0,0), (0.99,0,0), the origin (on the inner faces of the octants)
\* and a point on the maximum face of the root (outside its half-open box)
TreePoints ==
    { vec3(-396, 0, 0), vec3(396, 0, 0), vec3(0, 0, 0), vec3(UNIT, 0, 0) }

QueryCenters == { vec3(-396, 0, 0) }

\* 0.05 and 3
QueryRadii == { 20, 3 * UNIT }

NoCall == [op |-> "none", index |-> 0, center |-> vec3(0, 0, 0), radius |-> 0,
           ret |-> "none", found |-> <<>>]

Count == Cardinality(DOMAIN positions)

TreeInit ==
    /\ positions = <<>>
    /\ octree = TreeRoot
    /\ lastCall = NoCall
    /\ velocities = <<>>
    /\ accelerations = <<>>
    /\ neighborCount = <<>>
    /\ params = [N |-> 0]
    /\ scratch = <<>>
    /\ pc = "tree"
    /\ cursor = 0
    /\ dt = 0
    /\ steps = 0
    /\ dragged = <<>>
    /\ integrated = <<>>

boidsUnchanged ==
    UNCHANGED <<velocities, accelerations, neighborCount, params, scratch, pc,
                cursor, dt, steps, dragged, integrated>>

\* positions[index] = p; tree.insert(boids, index) for the next free index
TreeInsert(p) ==
    /\ pc = "tree"
    /\ Count < MaxInserts
    /\ LET index == Count
           pos == [i \in 0..index |-> IF i = index THEN p ELSE positions[i]]
           r == insert(octree, pos, index)
       IN /\ positions' = pos
          /\ octree' = r.node
          /\ lastCall' = [NoCall EXCEPT !.op = "insert", !.index = index,
                                        !.ret = r.ret]
    /\ boidsUnchanged

TreeQueryRadius(center, radius) ==
    /\ pc = "tree"
    /\ lastCall' = [NoCall EXCEPT !.op = "queryRadius", !.center = center,
                       !.radius = radius,
                       !.found = queryRadius(octree, positions, center, radius, <<>>)]
    /\ UNCHANGED <<positions, octree>>
    /\ boidsUnchanged

TreeQueryRadiusWrapped(center, radius) ==
    /\ pc = "tree"
    /\ lastCall' = [NoCall EXCEPT !.op = "queryRadiusWrapped",
                       !.center = center, !.radius = radius,
                       !.found = queryRadiusWrapped(octree, positions, center, radius)]
    /\ UNCHANGED <<positions, octree>>
    /\ boidsUnchanged

TreeNext ==
    \/ \E p \in TreePoints : TreeInsert(p)
    \/ \E c \in QueryCenters, r \in QueryRadii : TreeQueryRadius(c, r)
    \/ \E c \in QueryCenters, r \in QueryRadii : TreeQueryRadiusWrapped(c, r)

SpecTree == TreeInit /\ [][TreeNext]_vars

----------------------------------------------------------------------------
(* Boids.js: constructor, init and step.  step is one call in three        *)
(* phases, the rebuild of the tree, the force pass and the integration     *)
(* pass, each pass one agent at a time; nothing else runs in between.      *)

MaxSteps == 2

ZERO == vec3(0, 0, 0)

\* constructor arguments.  The bounds are the defaults (-5,-5,-5)..(5,5,5),
\* minSpeed 1, maxSpeed 4, interactionRadius 1, alignmentForce 1,
\* cohesionForce 1, separationForce 1.1, steeringForce 0.05.  alignmentBias
\* is 0.5: every alignment weight 1 + bias * similarity is positive, so
\* 1 / totalAlignmentWeight is finite.
BaseParams ==
    [N |-> 5, accuracy |-> 2, drag |-> 2, randomness |-> 0,
     interactionRadius |-> UNIT, alignmentForce |-> UNIT,
     alignmentBias |-> UNIT \div 2, cohesionForce |-> UNIT,
     separationForce |-> 440, steeringForce |-> 20,
     minSpeed |-> UNIT, maxSpeed |-> 4 * UNIT,
     boundsMin |-> vec3(-5 * UNIT, -5 * UNIT, -5 * UNIT),
     boundsMax |-> vec3(5 * UNIT, 5 * UNIT, 5 * UNIT)]

\* a flock of 5 with drag 0.005 and a neighbour cap of 2; a pair with
\* randomness 0.1 and the default cap 32; a pair with drag 1
ParamSets ==
    { BaseParams,
      [BaseParams EXCEPT !.N = 2, !.accuracy = 32, !.randomness = 40],
      [BaseParams EXCEPT !.N = 2, !.drag = UNIT] }

\* outcomes of init's random draws for one agent: next to the minimum face
\* flying out of it, next to the maximum face flying out of it, and near the
\* centre on an oblique course (speeds 1, 2 and 1)
InitAgents ==
    { [pos |-> vec3(-1996, 0, 0), vel |-> vec3(-UNIT, 0, 0)],
      [pos |-> vec3(1996, 0, 0), vel |-> vec3(2 * UNIT, 0, 0)],
      [pos |-> vec3(0, 100, 0), vel |-> vec3(240, 320, 0)] }

\* outcomes of (Math.random() * 2 - 1) per axis, in [-1, 1)
JitterSet == { ZERO, vec3(-UNIT, UNIT \div 2, 0) }

\* 0.02 and 1
DtSet == { 8, UNIT }

\* #octree before init (undefined)
NoTree == Octree(ZERO, ZERO)

NoScratch ==
    [temp_vec3_1 |-> ZERO, temp_vec3_2 |-> ZERO, temp_vec3_3 |-> ZERO,
     alignment |-> ZERO, cohesion |-> ZERO, separation |-> ZERO]

Agents == 0..(params.N - 1)

Init ==
    /\ params \in ParamSets
    /\ positions = <<>>
    /\ velocities = <<>>
    /\ accelerations = <<>>
    /\ neighborCount = <<>>
    /\ octree = NoTree
    /\ scratch = NoScratch
    /\ pc = "constructed"
    /\ cursor = 0
    /\ dt = 0
    /\ steps = 0
    /\ dragged = <<>>
    /\ integrated = <<>>
    /\ lastCall = NoCall

\* the tree of lines 896-898 and 966-968: centre min + (max - min) / 2
domainTree(min, max) ==
    LET s == vec_sub(max, min)
    IN Octree(vec_add(min, vec_mul(s, HALF)), s)

\* lines 890-898 of init(): empty tables and a fresh tree
initBegin ==
    /\ pc \in {"constructed", "idle"}
    /\ positions' = <<>>
    /\ velocities' = <<>>
    /\ accelerations' = <<>>
    /\ octree' = domainTree(params.boundsMin, params.boundsMax)
    /\ pc' = "init"
    /\ cursor' = 0
    /\ steps' = 0
    /\ dragged' = <<>>
    /\ integrated' = <<>>
    /\ UNCHANGED <<neighborCount, params, scratch, dt, lastCall>>

\* variant: the value is pushed at the end of the array
Assign_push(f, i, v) ==
    [k \in DOMAIN f \cup {Cardinality(DOMAIN f)} |->
        IF k = Cardinality(DOMAIN f) THEN v ELSE f[k]]

\* f with f[i] = v, the assignment a[i] = v to a JavaScript array
Assign(f, i, v) == [k \in DOMAIN f \cup {i} |-> IF k = i THEN v ELSE f[k]]

\* one iteration of the loop of init(), lines 899-906, with the random
\* draws a (position and velocity) for agent i = cursor
initAgent(a) ==
    /\ pc = "init"
    /\ LET i == cursor
           pos == Assign(positions, i, a.pos)
       IN /\ positions' = pos
          /\ velocities' = Assign(velocities, i, a.vel)
          /\ accelerations' = Assign(accelerations, i, ZERO)
          /\ neighborCount' = Assign(neighborCount, i, 0)
          /\ octree' = insert(octree, pos, i).node
          /\ dragged' = Assign(dragged, i, a.vel)
          /\ integrated' = Assign(integrated, i, a.pos)
    /\ IF cursor + 1 < params.N
       THEN pc' = "init" /\ cursor' = cursor + 1
       ELSE pc' = "idle" /\ cursor' = 0
    /\ UNCHANGED <<params, scratch, dt, steps, lastCall>>

\* the loop of line 969: tree.insert(this, i) for i in [from, N)
RECURSIVE insertAll(_, _, _, _)
insertAll(tree, pos, from, n) ==
    IF from >= n THEN tree
    ELSE insertAll(insert(tree, pos, from).node, pos, from + 1, n)

\* lines 958-969: clear the scratch vectors and rebuild the tree
stepRebuild(d) ==
    /\ pc = "idle"
    /\ steps < MaxSteps
    /\ LET extent == vec_sub(params.boundsMax, params.boundsMin)
           centre == vec_add(params.boundsMin, vec_mul(extent, HALF))
       IN /\ scratch' = [NoScratch EXCEPT !.temp_vec3_1 = extent,
                                          !.temp_vec3_2 = centre]
          /\ octree' = insertAll(Octree(centre, extent), positions, 0, params.N)
    /\ pc' = "force"
    /\ cursor' = 0
    /\ dt' = d
    /\ steps' = steps + 1
    /\ UNCHANGED <<positions, velocities, accelerations, neighborCount, params,
                   dragged, integrated, lastCall>>

\* lines 992-995: fold delta d by the contents t1 of #temp_vec3_1
foldStep(d, t1) ==
    [k \in Axes |->
        IF d[k] > FMul(t1[k], HALF) THEN d[k] - t1[k]
        ELSE IF d[k] < FMul(-t1[k], HALF) THEN d[k] + t1[k]
        ELSE d[k]]

\* vec_mul(v, -1 / (d2 || 1e-4)) for a squared distance d2 in units of
\* 1 / UNIT^2.  The quotient is rounded once: the floating-point error of
\* the reciprocal is far below the resolution 1 / UNIT.
separationTerm(v, d2) ==
    IF d2 = 0 THEN vec_mul(v, -(10000 * UNIT))
    ELSE [k \in Axes |-> RoundDiv(-(v[k] * UNIT * UNIT), d2)]

\* vec_mul(v, 1 / x) for a fixed-point x > 0, rounded once
vec_mul_reciprocal(v, x) == [k \in Axes |-> RoundDiv(v[k] * UNIT, x)]

\* variant: the loop stops one neighbour after the cap
reachedCap_offByOne(count) == count > params.accuracy

\* line 1008: the test that breaks out of the neighbour loop
reachedCap(count) == count >= params.accuracy

\* lines 985-1010 from neighbour k on.  S holds the scratch vectors, the
\* count neighborCount[i] and totalAlignmentWeight; S.deltas lists, for
\* each candidate j that is not i, the delta #temp_vec3_2 of lines 991-997.
RECURSIVE neighborLoop(_, _, _, _)
neighborLoop(S, i, neighbors, k) ==
    IF k > Len(neighbors) THEN S
    ELSE LET j == neighbors[k]
         IN IF i = j THEN neighborLoop(S, i, neighbors, k + 1)
            ELSE
            LET pos == positions[i]
                vel == velocities[i]
                otherPos == positions[j]
                otherVel == velocities[j]
                t2 == foldStep(vec_sub(otherPos, pos), S.temp_vec3_1)
                d2 == vec_smag(t2)
                S2 == [S EXCEPT !.temp_vec3_2 = t2,
                                !.deltas = Append(@, [j |-> j, delta |-> t2])]
            IN IF ~(d2 < params.interactionRadius * params.interactionRadius)
               THEN neighborLoop(S2, i, neighbors, k + 1)
               ELSE
               LET n1 == vec_norm(vel, S.temp_vec3_1)
                   n3 == vec_norm(otherVel, S.temp_vec3_3)
                   similarity == RoundDiv(vec_dot(n1, n3), UNIT)
                   weight == UNIT + FMul(params.alignmentBias, similarity)
                   w1 == vec_mul(otherVel, weight)
                   s3 == separationTerm(t2, d2)
                   S3 == [S2 EXCEPT
                            !.count = @ + 1,
                            !.totalAlignmentWeight = @ + weight,
                            !.temp_vec3_1 = w1,
                            !.temp_vec3_3 = s3,
                            !.alignment = vec_add(@, w1),
                            !.cohesion = vec_add(@, otherPos),
                            !.separation = vec_add(@, s3)]
               IN IF reachedCap(S3.count) THEN S3
                  ELSE neighborLoop(S3, i, neighbors, k + 1)

\* lines 1012-1016: turn the sums into the three steering forces
steer(S, i) ==
    IF ~(S.count > 0) THEN S
    ELSE LET a1 == vec_mul_reciprocal(S.alignment, S.totalAlignmentWeight)
             a2 == vec_sub(a1, velocities[i])
             a3 == vec_norm(a2, S.temp_vec3_3)
             alignment == vec_mul(a3, params.alignmentForce)
             c1 == vec_mul_reciprocal(S.cohesion, S.count * UNIT)
             c2 == vec_sub(c1, positions[i])
             c3 == vec_norm(c2, a3)
             cohesion == vec_mul(c3, params.cohesionForce)
             s1 == vec_norm(S.separation, c1)
             separation == vec_mul(s1, params.separationForce)
         IN [S EXCEPT !.temp_vec3_1 = s1, !.temp_vec3_2 = c2,
                      !.temp_vec3_3 = c3, !.alignment = alignment,
                      !.cohesion = cohesion, !.separation = separation]

\* lines 1018-1028: the acceleration of an agent from its steering forces
\* S1 and the random draw u, and the scratch vectors left behind
forceSum(S1, u) ==
    LET sum2 == vec_add(S1.alignment, S1.cohesion)
        sum1 == vec_mul(vec_add(sum2, S1.separation), params.steeringForce)
        jitter == vec_mul(u, params.randomness)
        acc == vec_add(sum1, jitter)
    IN [count |-> S1.count, acc |-> acc,
        scratch |-> [temp_vec3_1 |-> acc, temp_vec3_2 |-> sum2,
                     temp_vec3_3 |-> jitter, alignment |-> S1.alignment,
                     cohesion |-> S1.cohesion, separation |-> S1.separation]]

\* lines 972-983: the sums are cleared and #temp_vec3_1 holds the extent
forceStart ==
    [scratch EXCEPT
        !.alignment = ZERO, !.cohesion = ZERO, !.separation = ZERO,
        !.temp_vec3_1 = vec_sub(params.boundsMax, params.boundsMin)]
    @@ [count |-> 0, totalAlignmentWeight |-> 0, deltas |-> <<>>]

\* lines 972-1028 for agent i with the random draw u
forceAgent(i, u) ==
    forceSum(steer(neighborLoop(forceStart, i,
                                queryRadiusWrapped(octree, positions,
                                                   positions[i],
                                                   params.interactionRadius),
                                1), i), u)

\* lines 978-1027: what one iteration leaves in #neighborCount[i],
\* #accelerations[i] and the scratch vectors
forceStore(r) ==
    /\ neighborCount' = [neighborCount EXCEPT ![cursor] = r.count]
    /\ accelerations' = [accelerations EXCEPT ![cursor] = r.acc]
    /\ scratch' = r.scratch

\* variant: the force pass ends one agent early
forceContinues_skipLast(i) == i + 2 < params.N

\* line 971: the loop of the force pass goes on after agent i
forceContinues(i) == i + 1 < params.N

\* one iteration of the force pass, lines 971-1028
stepForce(u) ==
    /\ pc = "force"
    /\ forceStore(forceAgent(cursor, u))
    /\ IF forceContinues(cursor)
       THEN pc' = "force" /\ cursor' = cursor + 1
       ELSE pc' = "integrate" /\ cursor' = 0
    /\ UNCHANGED <<positions, velocities, octree, params, dt, steps, dragged,
                   integrated, lastCall>>

\* variant: the overflow distance is carried over to the opposite face
constrainBoid_carryOver(position, min, max) ==
    [k \in Axes |->
        IF position[k] < min[k] THEN position[k] + (max[k] - min[k])
        ELSE IF position[k] > max[k] THEN position[k] - (max[k] - min[k])
        ELSE position[k]]

constrainBoid(position, min, max) ==
    [k \in Axes |->
        IF position[k] < min[k] THEN max[k]
        ELSE IF position[k] > max[k] THEN min[k]
        ELSE position[k]]

\* lines 1037-1043: speed is compared through its square, which is exact
clampSpeed(vel, t1) ==
    IF vec_smag(vel) > params.maxSpeed * params.maxSpeed
    THEN vec_mul(vec_norm(vel, t1), params.maxSpeed)
    ELSE IF vec_smag(vel) < params.minSpeed * params.minSpeed
         THEN vec_mul(vec_norm(vel, t1), params.minSpeed)
         ELSE vel

\* one iteration of the integration pass, lines 1032-1048
stepIntegrate ==
    /\ pc = "integrate"
    /\ LET i == cursor
           t1 == vec_mul(accelerations[i], dt)
           v1 == vec_mul(vec_add(velocities[i], t1), UNIT - params.drag)
           vel == clampSpeed(v1, t1)
           t1b == vec_mul(vel, dt)
           pos == vec_add(positions[i], t1b)
       IN /\ velocities' = [velocities EXCEPT ![i] = vel]
          /\ positions' = [positions EXCEPT
                ![i] = constrainBoid(pos, params.boundsMin, params.boundsMax)]
          /\ scratch' = [scratch EXCEPT !.temp_vec3_1 = t1b]
          /\ dragged' = [dragged EXCEPT ![i] = v1]
          /\ integrated' = [integrated EXCEPT ![i] = pos]
    /\ IF cursor + 1 < params.N
       THEN pc' = "integrate" /\ cursor' = cursor + 1
       ELSE pc' = "idle" /\ cursor' = 0
    /\ UNCHANGED <<accelerations, neighborCount, octree, params, dt, steps,
                   lastCall>>

Next ==
    \/ initBegin
    \/ \E a \in InitAgents : initAgent(a)
    \/ \E d \in DtSet : stepRebuild(d)
    \/ \E u \in JitterSet : stepForce(u)
    \/ stepIntegrate

Spec == Init /\ [][Next]_vars

----------------------------------------------------------------------------
(* Renderer.js: the clip-space clipping of lines and polygons.  A clip-    *)
(* space coordinate is an integer count of steps of 2.5e-7, so that the    *)
(* threshold 1e-6 of ClipLine is 4 steps; a parameter t is an exact        *)
(* fraction <<numerator, denominator>> in lowest terms, denominator > 0.   *)

RECURSIVE GCD(_, _)
GCD(a, b) == IF b = 0 THEN a ELSE GCD(b, a % b)

\* the fraction n / d (d # 0) in lowest terms
Frac(n, d) ==
    LET g == GCD(Abs(n), Abs(d))
    IN IF d > 0 THEN <<n \div g, d \div g>> ELSE <<(-n) \div g, (-d) \div g>>

FracLess(s, t) == s[1] * t[2] < t[1] * s[2]

\* Math.max and Math.min of two parameters
FracMax(s, t) == IF FracLess(s, t) THEN t ELSE s

FracMin(s, t) == IF FracLess(t, s) THEN t ELSE s

vec4(x, y, z, w) == <<x, y, z, w>>

vec4_sub(a, b) == <<a[1] - b[1], a[2] - b[2], a[3] - b[3], a[4] - b[4]>>

vec4_dot(a, b) == a[1] * b[1] + a[2] * b[2] + a[3] * b[3] + a[4] * b[4]

\* Right, Left, Top, Bottom, Far, Near
CLIP_PLANES ==
    << vec4(-1, 0, 0, 1), vec4(1, 0, 0, 1), vec4(0, -1, 0, 1),
       vec4(0, 1, 0, 1), vec4(0, 0, -1, 1), vec4(0, 0, 1, 1) >>

\* the threshold 1e-6 below which a segment counts as parallel to a plane
PARALLEL_EPS == 4

\* variant: a segment parallel to a plane is culled whatever its side
clipParallel_alwaysCull(p_dot_plane) == TRUE

\* line 820: a segment parallel to a plane and outside of it is culled
clipParallel(p_dot_plane) == p_dot_plane < 0

\* variant: the exit parameter is never tightened
clipExit_keep(t_max, t) == t_max

\* line 825: the exit parameter of a segment moving away from the normal
clipExit(t_max, t) == FracMin(t_max, t)

\* variant: an empty parameter range is returned as well
clipResult_keepEmpty(t_min, t_max) ==
    [null |-> FALSE, t_min |-> t_min, t_max |-> t_max]

\* lines 828-829: the result, null when the range [t_min, t_max] is empty
clipResult(t_min, t_max) ==
    [null |-> ~FracLess(t_min, t_max), t_min |-> t_min, t_max |-> t_max]

\* the loop of ClipLine from plane k on, lines 815-826.  The result is a
\* record whose field null tells whether null is returned.
RECURSIVE clipPlanes(_, _, _, _, _)
clipPlanes(p1_cpos, temp_diff, k, t_min, t_max) ==
    IF k > Len(CLIP_PLANES) THEN clipResult(t_min, t_max)
    ELSE LET p_dot_plane == vec4_dot(p1_cpos, CLIP_PLANES[k])
             diff_dot_plane == vec4_dot(temp_diff, CLIP_PLANES[k])
         IN IF Abs(diff_dot_plane) < PARALLEL_EPS
            THEN IF clipParallel(p_dot_plane)
                 THEN [null |-> TRUE, t_min |-> t_min, t_max |-> t_max]
                 ELSE clipPlanes(p1_cpos, temp_diff, k + 1, t_min, t_max)
            ELSE IF diff_dot_plane > 0
                 THEN clipPlanes(p1_cpos, temp_diff, k + 1,
                                 FracMax(t_min, Frac(-p_dot_plane, diff_dot_plane)),
                                 t_max)
                 ELSE clipPlanes(p1_cpos, temp_diff, k + 1, t_min,
                                 clipExit(t_max, Frac(-p_dot_plane, diff_dot_plane)))

ClipLine(p1_cpos, p2_cpos) ==
    clipPlanes(p1_cpos, vec4_sub(p2_cpos, p1_cpos), 1, <<0, 1>>, <<1, 1>>)

\* A vertex of a polygon is a record [n, d]: the clip-space position n / d
\* with integer n[1..4] and d > 0 in lowest terms, which holds the
\* interpolated intersections exactly.
cpos(v) == [n |-> v, d |-> 1]

\* the sign of vec_dot(vertex, plane) is that of the numerator
vertexDot(p, plane) == vec4_dot(p.n, plane)

GCD4(v, d) == GCD(GCD(GCD(GCD(d, Abs(v[1])), Abs(v[2])), Abs(v[3])), Abs(v[4]))

\* the position n / d (d > 0) in lowest terms
reduced(n, d) ==
    [n |-> <<n[1] \div GCD4(n, d), n[2] \div GCD4(n, d),
             n[3] \div GCD4(n, d), n[4] \div GCD4(n, d)>>,
     d |-> d \div GCD4(n, d)]

\* lines 896-897 and 901-902: t = dprev / (dprev - dcurr) and the vertex
\* prev + (curr - prev) * t, for prev and curr on opposite sides of plane.
\* With a = vertexDot(prev), b = vertexDot(curr): t = tn / td below, and the
\* vertex is (prev.n * curr.d * (td - tn) + curr.n * prev.d * tn)
\*           / (prev.d * curr.d * td)
intersection(prev, curr, plane) ==
    LET t == Frac(vertexDot(prev, plane) * curr.d,
                  vertexDot(prev, plane) * curr.d - vertexDot(curr, plane) * prev.d)
        wp == curr.d * (t[2] - t[1])
        wc == prev.d * t[1]
    IN reduced([k \in 1..4 |-> prev.n[k] * wp + curr.n[k] * wc],
               prev.d * curr.d * t[2])

\* variant: an edge inside the plane contributes both of its vertices
clipKeep_both(prev, curr) == <<prev, curr>>

\* line 894: an edge with both endpoints inside contributes curr
clipKeep(prev, curr) == <<curr>>

\* lines 888-905: what the edge prev -> curr adds to the ring
clipEdge(prev, curr, plane) ==
    IF vertexDot(curr, plane) >= 0
    THEN IF vertexDot(prev, plane) >= 0 THEN clipKeep(prev, curr)
         ELSE <<intersection(prev, curr, plane), curr>>
    ELSE IF vertexDot(prev, plane) >= 0 THEN <<intersection(prev, curr, plane)>>
         ELSE <<>>

\* the loop of lines 887-906 from vertex i on (vertices are numbered from 1)
RECURSIVE clipRing(_, _, _, _)
clipRing(input, plane, i, out) ==
    IF i > Len(input) THEN out
    ELSE clipRing(input, plane, i + 1,
                  out \o clipEdge(input[IF i = 1 THEN Len(input) ELSE i - 1],
                                  input[i], plane))

\* variant: an empty ring is passed on to the next plane
culled_never(out) == FALSE

\* line 907: the ring is completely clipped
culled(out) == Len(out) = 0

RECURSIVE clipPolygonPlanes(_, _)

\* line 907 and the next turn of the loop over the planes
clipStage(out, k) ==
    IF culled(out) THEN [null |-> TRUE, out |-> <<>>]
    ELSE clipPolygonPlanes(out, k + 1)

\* the loop of lines 881-908 from plane k on; out is the ring so far
clipPolygonPlanes(out, k) ==
    IF k > Len(CLIP_PLANES) THEN [null |-> FALSE, out |-> out]
    ELSE IF Len(out) = 0 THEN [null |-> TRUE, out |-> <<>>]
    ELSE clipStage(clipRing(out, CLIP_PLANES[k], 1, <<>>), k)

\* the argument is a sequence of vertices
ClipPolygon(cpos_polygon) == clipPolygonPlanes(cpos_polygon, 1)

----------------------------------------------------------------------------
(* The clipping calls on their own: a behaviour is one call of a static    *)
(* method of Renderer.  The initial state holds the arguments of the call  *)
(* in lastCall, and the call adds its result.                              *)

\* clip-space positions with w = 8 steps: x takes inside values, the two
\* faces |x| = w, values one step around the face x = w and values
\* outside; y and z are inside or outside
ClipPoints ==
    { vec4(x, y, z, 8) : x \in {-16, -12, -8, 0, 7, 8, 9, 16},
                         y \in {0, 12}, z \in {0, -12} }

ClipLineArgs ==
    { [op |-> "ClipLine", done |-> FALSE, p1 |-> p1, p2 |-> p2] :
        p1 \in ClipPoints, p2 \in ClipPoints }

\* vertices for the polygons: inside, on the face x = w and outside
PolygonPoints ==
    { cpos(vec4(x, y, z, 8)) : x \in {-16, 0, 8, 16}, y \in {0, 4, 12},
                               z \in {0, -12} }

\* the empty vertex list, single vertices, two-vertex rings and triangles
Polygons ==
    {<<>>} \cup UNION { [1..n -> PolygonPoints] : n \in 1..3 }

ClipPolygonArgs ==
    { [op |-> "ClipPolygon", done |-> FALSE, polygon |-> g] : g \in Polygons }

ClipInit ==
    /\ lastCall \in ClipLineArgs \cup ClipPolygonArgs
    /\ positions = <<>>
    /\ octree = NoTree
    /\ velocities = <<>>
    /\ accelerations = <<>>
    /\ neighborCount = <<>>
    /\ params = [N |-> 0]
    /\ scratch = <<>>
    /\ pc = "clip"
    /\ cursor = 0
    /\ dt = 0
    /\ steps = 0
    /\ dragged = <<>>
    /\ integrated = <<>>

\* Renderer.ClipLine(p1_cpos, p2_cpos)
ClipLineCall ==
    /\ pc = "clip" /\ lastCall.op = "ClipLine" /\ ~lastCall.done
    /\ lastCall' = [op |-> "ClipLine", done |-> TRUE,
                    p1 |-> lastCall.p1, p2 |-> lastCall.p2,
                    ret |-> ClipLine(lastCall.p1, lastCall.p2)]
    /\ UNCHANGED <<positions, octree>>
    /\ boidsUnchanged

\* Renderer.ClipPolygon(cpos_polygon)
ClipPolygonCall ==
    /\ pc = "clip" /\ lastCall.op = "ClipPolygon" /\ ~lastCall.done
    /\ lastCall' = [op |-> "ClipPolygon", done |-> TRUE,
                    polygon |-> lastCall.polygon,
                    ret |-> ClipPolygon(lastCall.polygon)]
    /\ UNCHANGED <<positions, octree>>
    /\ boidsUnchanged

ClipNext ==
    \/ ClipLineCall
    \/ ClipPolygonCall

SpecClip == ClipInit /\ [][ClipNext]_vars

----------------------------------------------------------------------------
(* vector.js on its own: a behaviour is one call of vec_norm, or a call of *)
(* vec3_to_vec4 followed by a call of vec4_to_vec3 on its result.  The     *)
(* initial state holds the arguments in lastCall.  An output buffer is the *)
(* sequence of its contents before the call, and <<>> when none is passed. *)

\* the array out after out[0..n-1] = vals[0..n-1], or the new array vals
\* when no buffer is passed
WriteInto(out, vals) ==
    [k \in 1..Max2(Len(out), Len(vals)) |->
        IF k <= Len(vals) THEN vals[k] ELSE out[k]]

vec3_to_vec4(v, w, out) == WriteInto(out, <<v[1], v[2], v[3], w>>)

\* variant: the last three components are taken
vec4_to_vec3_shifted(v, out) == WriteInto(out, <<v[2], v[3], v[4]>>)

vec4_to_vec3(v, out) == WriteInto(out, <<v[1], v[2], v[3]>>)

\* line 314: the value of t the interpolation uses
lerpFactor(t, clamp) == IF clamp THEN t ELSE Min2(Max2(t, 0), UNIT)

\* lines 315-318; t is a fixed-point number, a and b have the same length
vec_lerp(a, b, t, clamp, out) ==
    WriteInto(out, [i \in 1..Len(a) |->
                       FMul(UNIT - lerpFactor(t, clamp), a[i])
                           + FMul(lerpFactor(t, clamp), b[i])])

VectorValues == {-UNIT, 0, 7}

Vectors3 == { vec3(x, y, z) : x \in VectorValues, y \in VectorValues, z \in VectorValues }

\* no buffer, and a buffer left over from an earlier computation
Buffers3 == { <<>>, vec3(5, -5, UNIT) }

Buffers4 == { <<>>, vec4(9, 9, 9, 9) }

VecNormArgs ==
    { [op |-> "vec_norm", done |-> FALSE, v |-> v, out |-> out] :
        v \in Vectors3, out \in Buffers3 }

RoundTripArgs ==
    { [op |-> "vec3_to_vec4", done |-> FALSE, v |-> v, w |-> w,
       out4 |-> out4, out3 |-> out3] :
        v \in Vectors3, w \in {0, UNIT, -3}, out4 \in Buffers4, out3 \in Buffers3 }

\* t below 0, at 0, inside (0, 1), at 1 and above 1
LerpFactors == {-UNIT \div 2, 0, UNIT \div 4, UNIT, 2 * UNIT}

VecLerpArgs ==
    { [op |-> "vec_lerp", done |-> FALSE, a |-> a, b |-> b, t |-> t,
       clamp |-> clamp, out |-> out] :
        a \in {vec3(0, UNIT, -UNIT), vec3(7, 7, 7)},
        b \in {vec3(UNIT, UNIT, 3 * UNIT), vec3(0, 0, 0)},
        t \in LerpFactors, clamp \in BOOLEAN, out \in Buffers3 }

VectorInit ==
    /\ lastCall \in VecNormArgs \cup RoundTripArgs \cup VecLerpArgs
    /\ positions = <<>>
    /\ octree = NoTree
    /\ velocities = <<>>
    /\ accelerations = <<>>
    /\ neighborCount = <<>>
    /\ params = [N |-> 0]
    /\ scratch = <<>>
    /\ pc = "vector"
    /\ cursor = 0
    /\ dt = 0
    /\ steps = 0
    /\ dragged = <<>>
    /\ integrated = <<>>

\* vec_norm(v, out)
VecNormCall ==
    /\ pc = "vector" /\ lastCall.op = "vec_norm" /\ ~lastCall.done
    /\ lastCall' = [op |-> "vec_norm", done |-> TRUE, v |-> lastCall.v,
                    out |-> lastCall.out,
                    ret |-> vec_norm(lastCall.v, lastCall.out)]
    /\ UNCHANGED <<positions, octree>>
    /\ boidsUnchanged

\* v4 = vec3_to_vec4(v, w, out4)
Vec3ToVec4Call ==
    /\ pc = "vector" /\ lastCall.op = "vec3_to_vec4" /\ ~lastCall.done
    /\ lastCall' = [op |-> "vec4_to_vec3", done |-> FALSE, v |-> lastCall.v,
                    w |-> lastCall.w, out4 |-> lastCall.out4,
                    out3 |-> lastCall.out3,
                    v4 |-> vec3_to_vec4(lastCall.v, lastCall.w, lastCall.out4)]
    /\ UNCHANGED <<positions, octree>>
    /\ boidsUnchanged

\* vec4_to_vec3(v4, out3)
Vec4ToVec3Call ==
    /\ pc = "vector" /\ lastCall.op = "vec4_to_vec3" /\ ~lastCall.done
    /\ lastCall' = [op |-> "vec4_to_vec3", done |-> TRUE, v |-> lastCall.v,
                    w |-> lastCall.w, out4 |-> lastCall.out4,
                    out3 |-> lastCall.out3, v4 |-> lastCall.v4,
                    ret |-> vec4_to_vec3(lastCall.v4, lastCall.out3)]
    /\ UNCHANGED <<positions, octree>>
    /\ boidsUnchanged

\* vec_lerp(a, b, t, clamp, out)
VecLerpCall ==
    /\ pc = "vector" /\ lastCall.op = "vec_lerp" /\ ~lastCall.done
    /\ lastCall' = [op |-> "vec_lerp", done |-> TRUE, a |-> lastCall.a,
                    b |-> lastCall.b, t |-> lastCall.t,
                    clamp |-> lastCall.clamp, out |-> lastCall.out,
                    ret |-> vec_lerp(lastCall.a, lastCall.b, lastCall.t,
                                     lastCall.clamp, lastCall.out)]
    /\ UNCHANGED <<positions, octree>>
    /\ boidsUnchanged

VectorNext ==
    \/ VecNormCall
    \/ Vec3ToVec4Call
    \/ Vec4ToVec3Call
    \/ VecLerpCall

SpecVector == VectorInit /\ [][VectorNext]_vars

----------------------------------------------------------------------------
(* Canvas (Renderer.js): the autoResize switch and the window 'resize'     *)
(* listeners.  The canvas is the record lastCall: the flag #autoResize,    *)
(* the size of the element, the listeners registered on window for         *)
(* 'resize' and the number of 'resize' events the Canvas has dispatched.   *)
(* A listener is named by the number of the function object it is: each    *)
(* evaluation of this._resize.bind(this) makes a new function object.      *)

MaxBinds == 4

MaxResizes == 3

\* width and height of an element before any resize (HTML default)
DefaultSize == <<300, 150>>

\* bounding boxes of the parent element
Boxes == { <<640, 480>>, <<800, 600>> }

\* lines 1102-1107 around _resize's callback (1087-1091): the element takes
\* the size of the parent's box and the Canvas dispatches 'resize'
resize(c) ==
    [c EXCEPT !.size = c.box, !.events = @ + 1]

\* line 1068: window.addEventListener('resize', this._resize.bind(this)),
\* and line 1069
bind(c) ==
    resize([c EXCEPT !.listeners = @ \cup {c.bound}, !.bound = @ + 1])

\* line 1078: window.removeEventListener('resize', this._resize.bind(this))
\* removes the listener that is the function object just made
unbind(c) ==
    [c EXCEPT !.listeners = @ \ {c.bound}, !.bound = @ + 1]

\* constructor, lines 967-975
Canvas(autoResize, box) ==
    LET c == [op |-> "new", autoResize |-> autoResize, size |-> DefaultSize,
              box |-> box, listeners |-> {}, bound |-> 0, events |-> 0,
              resizes |-> 0]
    IN IF autoResize THEN bind(c) ELSE c

CanvasInit ==
    /\ lastCall \in { Canvas(a, b) : a \in BOOLEAN, b \in Boxes }
    /\ positions = <<>>
    /\ octree = NoTree
    /\ velocities = <<>>
    /\ accelerations = <<>>
    /\ neighborCount = <<>>
    /\ params = [N |-> 0]
    /\ scratch = <<>>
    /\ pc = "canvas"
    /\ cursor = 0
    /\ dt = 0
    /\ steps = 0
    /\ dragged = <<>>
    /\ integrated = <<>>

\* set autoResize(r), lines 1051-1057
SetAutoResize(r) ==
    /\ pc = "canvas"
    /\ lastCall.bound < MaxBinds
    /\ lastCall' =
          IF r # lastCall.autoResize
          THEN IF r THEN bind([lastCall EXCEPT !.op = "autoResize", !.autoResize = r])
               ELSE unbind([lastCall EXCEPT !.op = "autoResize", !.autoResize = r])
          ELSE [lastCall EXCEPT !.op = "autoResize"]
    /\ UNCHANGED <<positions, octree>>
    /\ boidsUnchanged

\* the listeners of window run one after the other
RECURSIVE fire(_, _)
fire(c, n) == IF n = 0 THEN c ELSE fire(resize(c), n - 1)

\* the window is resized: the parent's box changes and window dispatches
\* 'resize' to every registered listener, each a bound _resize (1086-1092)
WindowResize(box) ==
    /\ pc = "canvas"
    /\ lastCall.resizes < MaxResizes
    /\ lastCall' = fire([lastCall EXCEPT !.op = "windowResize", !.box = box,
                                         !.resizes = @ + 1],
                        Cardinality(lastCall.listeners))
    /\ UNCHANGED <<positions, octree>>
    /\ boidsUnchanged

CanvasNext ==
    \/ \E r \in BOOLEAN : SetAutoResize(r)
    \/ \E box \in Boxes : WindowResize(box)

SpecCanvas == CanvasInit /\ [][CanvasNext]_vars

----------------------------------------------------------------------------
(* UI.js: UIExclusiveButtonState over UISelectableButtonElement buttons.   *)
(* The state manager is the record lastCall: the flag _invert, the buttons *)
(* (name and the string kept in dataset.selected), the index _active       *)
(* (from 1) and the number of 'change' events dispatched so far.           *)

MaxClicks == 5

\* UISelectableButtonElement.write, line 726: the dataset keeps a string
writeButton(b, v) == [b EXCEPT !.selected = IF v THEN "true" ELSE "false"]

\* UISelectableButtonElement.read, lines 714-715
readButton(b) == b.selected = "true"

\* new UISelectableButtonElement(element, name, initialState), lines 702-705
UISelectableButtonElement(name, initialState) ==
    writeButton([name |-> name, selected |-> "undefined"], initialState)

ButtonNames == <<"orbit", "manual", "free">>

\* the button lists the constructor accepts: two or three buttons with
\* different names of which exactly one is active (lines 779-787)
ButtonLists(invert) ==
    { bs \in UNION { [1..n -> { UISelectableButtonElement(ButtonNames[k], v) :
                                   k \in 1..3, v \in BOOLEAN }] : n \in 2..3 } :
        /\ \A k \in DOMAIN bs : bs[k].name = ButtonNames[k]
        /\ Cardinality({ k \in DOMAIN bs : readButton(bs[k]) # invert }) = 1 }

\* constructor, lines 776-794
UIExclusiveButtonState(invert, buttons) ==
    [op |-> "new", invert |-> invert, buttons |-> buttons,
     active |-> CHOOSE k \in DOMAIN buttons : readButton(buttons[k]) # invert,
     clicked |-> 0, clicks |-> 0, changes |-> 0, value |-> "none"]

ButtonsInit ==
    /\ lastCall \in UNION { { UIExclusiveButtonState(invert, bs) :
                                bs \in ButtonLists(invert) } : invert \in BOOLEAN }
    /\ positions = <<>>
    /\ octree = NoTree
    /\ velocities = <<>>
    /\ accelerations = <<>>
    /\ neighborCount = <<>>
    /\ params = [N |-> 0]
    /\ scratch = <<>>
    /\ pc = "buttons"
    /\ cursor = 0
    /\ dt = 0
    /\ steps = 0
    /\ dragged = <<>>
    /\ integrated = <<>>

\* lines 830-831: the first button whose name is that of the event
firstNamed(buttons, name) ==
    CHOOSE i \in DOMAIN buttons :
        /\ buttons[i].name = name
        /\ \A j \in 1..(i - 1) : buttons[j].name # name

\* variant: the button that was active is not written
switchTo_keepsOld(s, i) ==
    [s EXCEPT !.buttons[i] = writeButton(@, ~s.invert),
              !.active = i, !.changes = @ + 1, !.value = s.buttons[i].name]

\* lines 835-838
switchTo(s, i) ==
    [s EXCEPT !.buttons[s.active] = writeButton(@, s.invert),
              !.buttons[i] = writeButton(@, ~s.invert),
              !.active = i, !.changes = @ + 1, !.value = s.buttons[i].name]

\* _onClick(e) for a 'click' event of the button of that name, lines 829-843
onClick(s, name) ==
    IF firstNamed(s.buttons, name) # s.active
    THEN switchTo(s, firstNamed(s.buttons, name))
    ELSE s

\* the element of button k is clicked: UIButtonElement._onClick (672-674)
\* dispatches 'click' with the button's name to the manager's _onClick
Click(k) ==
    /\ pc = "buttons"
    /\ k \in DOMAIN lastCall.buttons
    /\ lastCall.clicks < MaxClicks
    /\ lastCall' = onClick([lastCall EXCEPT !.op = "click", !.clicked = k,
                                            !.clicks = @ + 1],
                           lastCall.buttons[k].name)
    /\ UNCHANGED <<positions, octree>>
    /\ boidsUnchanged

ButtonsNext == \E k \in 1..3 : Click(k)

SpecButtons == ButtonsInit /\ [][ButtonsNext]_vars

----------------------------------------------------------------------------
(* Renderer.js: render() and what it calls.  A call of render works on the *)
(* record R of everything it can reach: the tables and tunables of the     *)
(* Boids object, the fields of the Renderer, the canvas and the temporary  *)
(* buffers of the call, one field each.  A helper that is given an output  *)
(* buffer is bound to the field the code passes (bind); a helper called    *)
(* without one makes a new array, which is a value of the model.  Matrices *)
(* are 16-tuples in column-major order, entries in fixed point; a vector   *)
(* of clip space is a 4-tuple in fixed point.  The canvas keeps the style  *)
(* and the number of lineTo calls of every stroke() and fill().            *)

\* the buffer `name` after a helper has written vals to its first entries
writeBuffer(R, name, vals) == [R EXCEPT ![name] = WriteInto(R[name], vals)]

\* a new buffer for the local `name`: vec2(), vec3(), vec4() or mat4x4()
alloc(R, name, vals) == [R EXCEPT ![name] = vals]

\* TRUE.  The loops below test it at the head of every turn, which makes
\* the record of the turn before a value before the next turn starts: the
\* statements of a call are evaluated in the order of the code and not as
\* one nested expression at the end of the call
settled(R) == R.canvas.width >= 0

IDENTITY ==
    <<UNIT, 0, 0, 0, 0, UNIT, 0, 0, 0, 0, UNIT, 0, 0, 0, 0, UNIT>>

\* matrix.js lines 85-109: the arguments are the rows, the array holds the
\* columns
mat4x4(r0, r1, r2, r3) ==
    << r0[1], r1[1], r2[1], r3[1], r0[2], r1[2], r2[2], r3[2],
       r0[3], r1[3], r2[3], r3[3], r0[4], r1[4], r2[4], r3[4] >>

\* matrix.js lines 173-177; w is a fixed-point number
mat4x4_mul_vec3(m, v, w) ==
    [i \in 1..4 |-> FMul(m[i], v[1]) + FMul(m[i + 4], v[2])
                        + FMul(m[i + 8], v[3]) + FMul(m[i + 12], w)]

\* matrix.js lines 186-190
mat4x4_mul_vec4(m, v) ==
    [i \in 1..4 |-> FMul(m[i], v[1]) + FMul(m[i + 4], v[2])
                        + FMul(m[i + 8], v[3]) + FMul(m[i + 12], v[4])]

\* vector.js lines 401-412
vec3_cross(a, b) ==
    << FMul(a[2], b[3]) - FMul(a[3], b[2]),
       FMul(a[3], b[1]) - FMul(a[1], b[3]),
       FMul(a[1], b[2]) - FMul(a[2], b[1]) >>

\* vec_add of two clip-space vectors
vec4_add(a, b) == <<a[1] + b[1], a[2] + b[2], a[3] + b[3], a[4] + b[4]>>

\* vec_mul of a clip-space vector and a parameter t = <<n, d>> of ClipLine
vec4_mul(a, t) ==
    << RoundDiv(a[1] * t[1], t[2]), RoundDiv(a[2] * t[1], t[2]),
       RoundDiv(a[3] * t[1], t[2]), RoundDiv(a[4] * t[1], t[2]) >>

\* steps of 2.5e-7 in one unit of fixed point
STEPS == 10000

toSteps(v) == <<v[1] * STEPS, v[2] * STEPS, v[3] * STEPS, v[4] * STEPS>>

\* x / w in fixed point; w = 0 (a point in the plane of the eye) is behind
\* the near plane and never the argument of ToScreenFromClip
FDiv(x, w) ==
    IF w > 0 THEN RoundDiv(x * UNIT, w)
    ELSE IF w < 0 THEN -RoundDiv(x * UNIT, -w) ELSE 0

\* line 769: vec_div(vec4_to_vec2(clip, temp_ndc), clip[3], temp_ndc)
ndcOf(clip) == <<FDiv(clip[1], clip[4]), FDiv(clip[2], clip[4])>>

\* lines 771-772 and 776-777: the pixel of a normalized device coordinate
screenOf(canvas, ndc) ==
    << ((ndc[1] + UNIT) * canvas.width) \div (2 * UNIT),
       ((UNIT - ndc[2]) * canvas.height) \div (2 * UNIT) >>

\* ToScreenFromClip(canvas, clip, out_screenpos, temp_ndc) with both buffers
ToScreenFromClip(R, clip, out_screenpos, temp_ndc) ==
    writeBuffer(writeBuffer(R, temp_ndc, ndcOf(clip)), out_screenpos,
         screenOf(R.canvas, ndcOf(clip)))

\* vec3_color_hex, vector.js lines 429-431: the floors of the components
vec3_color_hex(v) == <<v[1] \div UNIT, v[2] \div UNIT, v[3] \div UNIT>>

\* vec4_color_hex, lines 447-449: the alpha is floor(v[3] * 255)
vec4_color_hex(v) ==
    <<v[1] \div UNIT, v[2] \div UNIT, v[3] \div UNIT, (v[4] * 255) \div UNIT>>

\* the calls on the 2D context
beginPath(R) == [R EXCEPT !.canvas.path = 0]

setStrokeStyle(R, hex) == [R EXCEPT !.canvas.strokeStyle = hex]

setFillStyle(R, hex) == [R EXCEPT !.canvas.fillStyle = hex]

moveTo(R, p) == [R EXCEPT !.canvas.pen = <<p[1], p[2]>>]

lineTo(R, p) ==
    [R EXCEPT !.canvas.pen = <<p[1], p[2]>>, !.canvas.path = @ + 1]

stroke(R) ==
    [R EXCEPT !.canvas.strokes =
        Append(@, [style |-> R.canvas.strokeStyle, lines |-> R.canvas.path])]

fill(R) ==
    [R EXCEPT !.canvas.fills =
        Append(@, [style |-> R.canvas.fillStyle, lines |-> R.canvas.path])]

\* line 438
clearRect(R) ==
    [R EXCEPT !.canvas.strokes = <<>>, !.canvas.fills = <<>>]

BOID_TETRAHEDRON_MODEL ==
    << vec3(0, 0, 2 * UNIT), vec3(HALF, -HALF, -HALF),
       vec3(-HALF, -HALF, -HALF), vec3(0, HALF, -HALF) >>

\* numbered from 1
BOID_TETRAHEDRION_EDGES ==
    << <<1, 2>>, <<1, 3>>, <<1, 4>>, <<2, 3>>, <<3, 4>>, <<4, 2>> >>

BOID_BILLBOARD ==
    << vec3(2 * UNIT, 0, 0), vec3(0, -HALF, 0), vec3(0, HALF, 0) >>

\* cos(k * 22.5 degrees) in fixed point, k = 0..15
COS16 ==
    << 400, 370, 283, 153, 0, -153, -283, -370,
       -400, -370, -283, -153, 0, 153, 283, 370 >>

\* billboard_ngon(16, 1, 0), billboard.js lines 45-56
BOID_INTERACTION_CIRCLE ==
    [k \in 1..16 |-> vec3(COS16[k], COS16[((k + 11) % 16) + 1], 0)]

BOX_EDGES ==
    << <<1, 2>>, <<2, 3>>, <<3, 4>>, <<4, 1>>, <<5, 6>>, <<6, 7>>, <<7, 8>>,
       <<8, 5>>, <<1, 5>>, <<2, 6>>, <<3, 7>>, <<4, 8>> >>

BILLBOARD_SCALE == vec3(UNIT, UNIT, UNIT)

\* lines 519-527 of #renderBoidTetrahedron and 672-678 of drawBox: the
\* point p1 + delta * t is written to the buffer `clipped` through the
\* buffer `interpolated`, and its pixel to `screen` through `ndc`
clippedPoint(R, p1, t, T) ==
    ToScreenFromClip(
        writeBuffer(writeBuffer(R, T.interpolated, vec4_mul(R[T.delta], t)),
             T.clipped, vec4_add(p1, vec4_mul(R[T.delta], t))),
        vec4_add(p1, vec4_mul(R[T.delta], t)), T.screen, T.ndc)

\* moveTo and lineTo of the pixel in the buffer `screen`
penMove(R, T) == moveTo(R, R[T.screen])

penLine(R, T) == lineTo(R, R[T.screen])

\* the visible part p1 + delta * [t_min, t_max] is added to the path
visibleEdge(R, p1, res, T) ==
    penLine(clippedPoint(penMove(clippedPoint(R, p1, res.t_min, T), T),
                         p1, res.t_max, T), T)

\* GetClipPosition, lines 747-755: the view position goes to temp_view_pos,
\* the clip position is a new array
cposOf(R, point) ==
    mat4x4_mul_vec4(R.projection, mat4x4_mul_vec3(R.view, point, UNIT))

\* lines 665-679 of drawBox for one edge; ClipLine is called without a
\* buffer here
boxEdge(R, p1, p2, res, T) ==
    IF res.null THEN R
    ELSE visibleEdge(writeBuffer(R, T.delta, vec4_sub(p2, p1)), p1, res, T)

RECURSIVE boxEdges(_, _, _, _)
boxEdges(R, corners, k, T) ==
    IF settled(R) /\ k > Len(BOX_EDGES) THEN R
    ELSE boxEdges(
            boxEdge(R, cposOf(R, corners[BOX_EDGES[k][1]]),
                    cposOf(R, corners[BOX_EDGES[k][2]]),
                    ClipLine(toSteps(cposOf(R, corners[BOX_EDGES[k][1]])),
                             toSteps(cposOf(R, corners[BOX_EDGES[k][2]]))), T),
            corners, k + 1, T)

\* the corner list of #renderBounds (617-626) and of Octree.draw (171-180)
boxCorners(min, max) ==
    << vec3(min[1], min[2], min[3]), vec3(max[1], min[2], min[3]),
       vec3(max[1], max[2], min[3]), vec3(min[1], max[2], min[3]),
       vec3(min[1], min[2], max[3]), vec3(max[1], min[2], max[3]),
       vec3(max[1], max[2], max[3]), vec3(min[1], max[2], max[3]) >>

\* drawBox, lines 652-682, with the six buffers named by T; the view
\* position of the last corner stays in temp_view_pos
drawBox(R, corners, color, T) ==
    stroke(boxEdges(
        setStrokeStyle(
            beginPath(writeBuffer(R, T.view_pos,
                           mat4x4_mul_vec3(R.view, corners[Len(corners)], UNIT))),
            vec4_color_hex(color)),
        corners, 1, T))

\* the buffers render() passes to #renderBounds (line 448)
BoundsTemps ==
    [delta |-> "temp_vec4_1", view_pos |-> "temp_vec4_2",
     interpolated |-> "temp_vec4_3", clipped |-> "temp_vec4_4",
     screen |-> "temp_vec2_1", ndc |-> "temp_vec2_2"]

\* #renderBounds, lines 614-628
renderBounds(R) ==
    drawBox(R, boxCorners(R.minBounds, R.maxBounds), R.boundsColor, BoundsTemps)

\* the buffers drawBox makes for itself when it is given none (663-668)
OwnTemps ==
    [delta |-> "box_delta", view_pos |-> "box_view_pos",
     interpolated |-> "box_interpolated", clipped |-> "box_clipped_cpos",
     screen |-> "box_screen_pos", ndc |-> "box_ndc"]

ownTemps(R) ==
    [R EXCEPT !.box_delta = <<0, 0, 0, 0>>, !.box_view_pos = <<0, 0, 0, 0>>,
              !.box_interpolated = <<0, 0, 0, 0>>,
              !.box_clipped_cpos = <<0, 0, 0, 0>>,
              !.box_screen_pos = <<0, 0>>, !.box_ndc = <<0, 0>>]

\* line 181 of Octree.draw: the colour with its alpha scaled by the fill
leafColor(node, color) ==
    vec3_to_vec4(vec4_to_vec3(color, <<>>),
                 FMul(RoundDiv(Len(node.indices) * UNIT, MAX_CAPACITY), color[4]),
                 <<>>)

RECURSIVE draw(_, _, _)

RECURSIVE drawChildren(_, _, _, _)
drawChildren(R, node, color, k) ==
    IF settled(R) /\ k > Len(node.children) THEN R
    ELSE drawChildren(draw(R, node.children[k], color), node, color, k + 1)

\* Octree.draw, lines 165-187
draw(R, node, color) ==
    IF isLeaf(node)
    THEN IF Len(node.indices) > 0
         THEN drawBox(ownTemps(R), boxCorners(boxMin(node), boxMax(node)),
                      leafColor(node, color), OwnTemps)
         ELSE R
    ELSE drawChildren(R, node, color, 1)

\* #renderTree, lines 635-637; the tree is undefined before init()
renderTree(R) == IF R.tree # NoTree THEN draw(R, R.tree, R.treeColor) ELSE R

\* neighborCount / maxNeighborCount in fixed point, maxNeighborCount > 0
ratio(count, maxNeighborCount) ==
    RoundDiv(count * UNIT, maxNeighborCount)

\* #boidGradient, lines 573-575: the contents of the result, given the
\* contents of the buffer passed (<<>> when none is passed)
boidGradient(R, count, maxNeighborCount, out) ==
    vec_lerp(R.minBoidColor, R.maxBoidColor,
             ratio(count, maxNeighborCount), TRUE, out)

\* lines 590-591: the up direction for the contents of basis_forward.  The
\* buffer has a fourth entry once mat4x4_mul_vec3 has written to it; vec_dot
\* then multiplies it with the missing fourth entry of basis_up, the sum is
\* NaN and the comparison is false
upFor(basis_forward) ==
    IF Len(basis_forward) = 3
       /\ Abs(vec_dot(basis_forward, vec3(0, UNIT, 0))) > (99 * UNIT * UNIT) \div 100
    THEN vec3(0, 0, UNIT) ELSE vec3(0, UNIT, 0)

\* line 592: vec_norm(vec3_cross(forward, up, basis_right), basis_right)
rightFor(basis_forward) ==
    vec_norm(vec3_cross(basis_forward, upFor(basis_forward)),
             vec3_cross(basis_forward, upFor(basis_forward)))

\* lines 594-600
modelMatrix(right, up, forward, position, boidScale) ==
    mat4x4(<<FMul(right[1], boidScale), FMul(up[1], boidScale),
             FMul(forward[1], boidScale), position[1]>>,
           <<FMul(right[2], boidScale), FMul(up[2], boidScale),
             FMul(forward[2], boidScale), position[2]>>,
           <<FMul(right[3], boidScale), FMul(up[3], boidScale),
             FMul(forward[3], boidScale), position[3]>>,
           <<0, 0, 0, UNIT>>)

\* lines 594-600, once the three directions are in their buffers
modelMatrixFromBasis(R, position) ==
    writeBuffer(R, "temp_mat4x4_1",
         modelMatrix(R.temp_vec3_3, R.temp_vec3_2, R.temp_vec3_1, position,
                     R.boidScale))

\* lines 592-593, once the forward direction is in its buffer
basisFromForward(R) ==
    writeBuffer(writeBuffer(R, "temp_vec3_3", rightFor(R.temp_vec3_1)),
         "temp_vec3_2", vec3_cross(rightFor(R.temp_vec3_1), R.temp_vec3_1))

\* variant: the velocity is normalized in place
createBoidTetrahedronModelMatrix_inPlace(R, i) ==
    modelMatrixFromBasis(
        basisFromForward(
            writeBuffer([R EXCEPT !.velocities[i] = vec_norm(@, @)],
                 "temp_vec3_1", vec_norm(R.velocities[i], R.velocities[i]))),
        R.positions[i])

\* #createBoidTetrahedronModelMatrix(position, velocity, temp_vec3_1,
\* temp_vec3_2, temp_vec3_3, temp_mat4x4_1) for agent i, lines 588-601
createBoidTetrahedronModelMatrix(R, i) ==
    modelMatrixFromBasis(
        basisFromForward(
            writeBuffer(R, "temp_vec3_1", vec_norm(R.velocities[i], R.temp_vec3_1))),
        R.positions[i])

\* lines 505-509: the clip position of vertex k of the model
projectedVertex(R, k) ==
    mat4x4_mul_vec4(R.projection,
        mat4x4_mul_vec4(R.view,
            vec3_to_vec4(mat4x4_mul_vec3(R.temp_mat4x4_1,
                                         BOID_TETRAHEDRON_MODEL[k], UNIT),
                         UNIT, <<>>)))

\* the buffers of lines 519-527
TetrahedronTemps ==
    [delta |-> "temp_vec4_1", interpolated |-> "temp_vec4_2",
     clipped |-> "temp_vec4_2", screen |-> "temp_vec2_1", ndc |-> "temp_vec2_2"]

\* lines 512-528 for one edge; ClipLine leaves the difference in temp_vec4_1
tetrahedronEdge(R, p1, p2, res) ==
    IF res.null THEN writeBuffer(R, "temp_vec4_1", vec4_sub(p2, p1))
    ELSE visibleEdge(writeBuffer(R, "temp_vec4_1", vec4_sub(p2, p1)), p1, res,
                     TetrahedronTemps)

RECURSIVE tetrahedronEdges(_, _)
tetrahedronEdges(R, k) ==
    IF settled(R) /\ k > Len(BOID_TETRAHEDRION_EDGES) THEN R
    ELSE tetrahedronEdges(
            tetrahedronEdge(R,
                projectedVertex(R, BOID_TETRAHEDRION_EDGES[k][1]),
                projectedVertex(R, BOID_TETRAHEDRION_EDGES[k][2]),
                ClipLine(toSteps(projectedVertex(R, BOID_TETRAHEDRION_EDGES[k][1])),
                         toSteps(projectedVertex(R, BOID_TETRAHEDRION_EDGES[k][2])))),
            k + 1)

\* lines 505-509: the world position of the last vertex stays in
\* temp_vec3_1 and its 4-vector in temp_vec4_2
projectedTemps(R) ==
    writeBuffer(writeBuffer(R, "temp_vec3_1",
              mat4x4_mul_vec3(R.temp_mat4x4_1, BOID_TETRAHEDRON_MODEL[4], UNIT)),
         "temp_vec4_2",
         vec3_to_vec4(mat4x4_mul_vec3(R.temp_mat4x4_1,
                                      BOID_TETRAHEDRON_MODEL[4], UNIT),
                      UNIT, <<>>))

\* lines 500-502: the stroke colour
tetrahedronStyle(R, i) ==
    setStrokeStyle(
        writeBuffer(beginPath(R), "temp_vec4_1",
             boidGradient(R, R.neighbourCount[i], R.accuracy, R.temp_vec4_1)),
        vec3_color_hex(boidGradient(R, R.neighbourCount[i], R.accuracy,
                                    R.temp_vec4_1)))

\* #renderBoidTetrahedron for agent i, lines 499-530
renderBoidTetrahedron(R, i) ==
    stroke(tetrahedronEdges(
        projectedTemps(createBoidTetrahedronModelMatrix(tetrahedronStyle(R, i), i)),
        1))

\* Math.cos and Math.sin of Math.atan2(y, x), atan2(0, 0) being 0
rotationOf(x, y) ==
    IF x = 0 /\ y = 0 THEN <<UNIT, 0>>
    ELSE <<vec_norm(vec3(x, y, 0), <<>>)[1], vec_norm(vec3(x, y, 0), <<>>)[2]>>

\* billboard.js lines 74-77: the rotated and scaled right and up directions
billboardAxis(a, b, cosR, sinR, s) ==
    vec_mul(vec_add(vec_mul(a, cosR), vec_mul(b, sinR)), s)

\* billboard_mat4x4, billboard.js lines 68-90, rotation given by its cosine
\* and sine; both branches fill the array alike
billboard_mat4x4(view, position, rotation, scale) ==
    << billboardAxis(vec_norm(vec3(view[1], view[5], view[9]), <<>>),
                     vec_norm(vec3(view[2], view[6], view[10]), <<>>),
                     rotation[1], rotation[2], scale[1])[1],
       billboardAxis(vec_norm(vec3(view[1], view[5], view[9]), <<>>),
                     vec_norm(vec3(view[2], view[6], view[10]), <<>>),
                     rotation[1], rotation[2], scale[1])[2],
       billboardAxis(vec_norm(vec3(view[1], view[5], view[9]), <<>>),
                     vec_norm(vec3(view[2], view[6], view[10]), <<>>),
                     rotation[1], rotation[2], scale[1])[3],
       0,
       billboardAxis(vec_norm(vec3(view[2], view[6], view[10]), <<>>),
                     vec_norm(vec3(view[1], view[5], view[9]), <<>>),
                     rotation[1], -rotation[2], scale[2])[1],
       billboardAxis(vec_norm(vec3(view[2], view[6], view[10]), <<>>),
                     vec_norm(vec3(view[1], view[5], view[9]), <<>>),
                     rotation[1], -rotation[2], scale[2])[2],
       billboardAxis(vec_norm(vec3(view[2], view[6], view[10]), <<>>),
                     vec_norm(vec3(view[1], view[5], view[9]), <<>>),
                     rotation[1], -rotation[2], scale[2])[3],
       0,
       0, 0, scale[3], 0,
       position[1], position[2], position[3], UNIT >>

\* lines 704-705 of drawBillboard: the clip position of vertex k
billboardVertex(R, bb, model, k) ==
    mat4x4_mul_vec4(R.projection,
        mat4x4_mul_vec4(R.view, mat4x4_mul_vec3(model, bb[k], UNIT)))

billboardClip(R, bb, model) ==
    [k \in 1..Len(bb) |-> billboardVertex(R, bb, model, k)]

\* the fixed-point value of a vertex of a clipped polygon
valueOf(p) ==
    <<RoundDiv(p.n[1], p.d), RoundDiv(p.n[2], p.d), RoundDiv(p.n[3], p.d),
      RoundDiv(p.n[4], p.d)>>

\* lines 895-903 of ClipPolygon: an edge that crosses the plane leaves
\* curr - prev in temp_diff and its multiple in temp_interpolated
crossingTemps(R, prev, curr, plane, T) ==
    IF (vertexDot(curr, plane) >= 0) = (vertexDot(prev, plane) >= 0) THEN R
    ELSE writeBuffer(
            writeBuffer(R, T.diff, vec4_sub(valueOf(curr), valueOf(prev))),
            T.interpolated,
            vec4_sub(valueOf(intersection(prev, curr, plane)), valueOf(prev)))

RECURSIVE ringTemps(_, _, _, _, _)
ringTemps(R, input, plane, i, T) ==
    IF settled(R) /\ i > Len(input) THEN R
    ELSE ringTemps(
            crossingTemps(R, input[IF i = 1 THEN Len(input) ELSE i - 1],
                          input[i], plane, T),
            input, plane, i + 1, T)

\* the buffers after ClipPolygon(out, temp_diff, temp_interpolated) from
\* plane k on
RECURSIVE polygonTemps(_, _, _, _)
polygonTemps(R, out, k, T) ==
    IF settled(R) /\ (k > Len(CLIP_PLANES) \/ Len(out) = 0) THEN R
    ELSE polygonTemps(ringTemps(R, out, CLIP_PLANES[k], 1, T),
                      clipRing(out, CLIP_PLANES[k], 1, <<>>), k + 1, T)

\* lines 711-713: the path through the pixels of the clipped polygon
RECURSIVE polygonPath(_, _, _, _)
polygonPath(R, poly, i, T) ==
    IF settled(R) /\ i > Len(poly) THEN R
    ELSE polygonPath(
            IF i = 1 THEN moveTo(R, screenOf(R.canvas, ndcOf(poly[i].n)))
            ELSE lineTo(R, screenOf(R.canvas, ndcOf(poly[i].n))),
            poly, i + 1, T)

\* lines 707-722 with fill given and stroke null
fillPolygon(R, clippedPoly, fillColor, T) ==
    IF clippedPoly.null THEN R
    ELSE fill(setFillStyle(
            polygonPath(
                beginPath(writeBuffer(R, T.ndc,
                    ndcOf(clippedPoly.out[Len(clippedPoly.out)].n))),
                clippedPoly.out, 1, T),
            vec4_color_hex(fillColor)))

\* lines 853-859 of ClipPolyline for the edge a -> b
polylineEdge(R, a, b, res, T) ==
    IF res.null THEN writeBuffer(R, T.diff, vec4_sub(b, a))
    ELSE writeBuffer(writeBuffer(R, T.diff, vec4_sub(b, a)),
                     T.interpolated, vec4_mul(vec4_sub(b, a), res.t_max))

\* ClipPolyline(true, clip, temp_vec4_1, temp_vec4_2), lines 843-862, from
\* edge i on; its result is not used when stroke is null
RECURSIVE ClipPolyline(_, _, _, _)
ClipPolyline(R, clip, i, T) ==
    IF settled(R) /\ (Len(clip) < 2 \/ i > Len(clip)) THEN R
    ELSE ClipPolyline(
            polylineEdge(R, clip[i], clip[(i % Len(clip)) + 1],
                         ClipLine(toSteps(clip[i]),
                                  toSteps(clip[(i % Len(clip)) + 1])), T),
            clip, i + 1, T)

\* the buffers render() passes to drawBillboard (lines 474 and 561)
BillboardTemps ==
    [diff |-> "temp_vec4_1", interpolated |-> "temp_vec4_2",
     ndc |-> "temp_vec2_1"]

\* drawBillboard(bb, model, true, null, fill, temp_vec4_1, temp_vec4_2,
\* temp_ndc), lines 697-735, as render() calls it: closed and without a
\* stroke colour.  The view position of the last vertex passes through
\* temp_vec4_1.
drawBillboard(R, bb, model, fillColor, T) ==
    ClipPolyline(
        fillPolygon(
            polygonTemps(
                writeBuffer(R, T.diff,
                    mat4x4_mul_vec4(R.view,
                        mat4x4_mul_vec3(model, bb[Len(bb)], UNIT))),
                [k \in 1..Len(bb) |-> cpos(billboardVertex(R, bb, model, k))],
                1, T),
            ClipPolygon([k \in 1..Len(bb) |->
                            cpos(billboardVertex(R, bb, model, k))]),
            fillColor, T),
        billboardClip(R, bb, model), 1, T)

\* lines 556-559 of #renderBoidBillboard: the view-space velocity passes
\* through temp_vec3_1, which then holds the scale, and the model matrix
\* goes to temp_mat4x4
billboardModel(R, i) ==
    writeBuffer(
        writeBuffer(
            writeBuffer(R, "temp_vec3_1",
                        mat4x4_mul_vec3(R.view, R.velocities[i], 0)),
            "temp_vec3_1", vec3(R.boidScale, R.boidScale, R.boidScale)),
        "temp_mat4x4_1",
        billboard_mat4x4(R.view, R.positions[i],
            rotationOf(mat4x4_mul_vec3(R.view, R.velocities[i], 0)[1],
                       mat4x4_mul_vec3(R.view, R.velocities[i], 0)[2]),
            vec3(R.boidScale, R.boidScale, R.boidScale)))

\* line 560
billboardColor(R, i) ==
    writeBuffer(R, "temp_vec4_3",
        vec3_to_vec4(boidGradient(R, R.neighbourCount[i], R.accuracy, <<>>),
                     UNIT, R.temp_vec4_3))

\* line 561, once the matrix and the colour are in their buffers
billboardDraw(R) ==
    drawBillboard(R, BOID_BILLBOARD, R.temp_mat4x4_1, R.temp_vec4_3,
                  BillboardTemps)

\* #renderBoidBillboard for agent i, lines 554-562
renderBoidBillboard(R, i) == billboardDraw(billboardColor(billboardModel(R, i), i))

\* line 472: nfac = neighborCount / accuracy
nfac(R, i) == ratio(R.neighbourCount[i], R.accuracy)

\* line 473: vec_mul(BILLBOARD_SCALE, interactionRadius, temp_vec3_1)
radiusScale(R) ==
    writeBuffer(R, "temp_vec3_1", vec_mul(BILLBOARD_SCALE, R.interactionRadius))

\* lines 471-475 for agent i; nfac below 1e-6 is nfac = 0 in fixed point
renderRadius(R, i) ==
    IF ~R.shouldRenderInteractionRadius \/ nfac(R, i) = 0 THEN R
    ELSE drawBillboard(radiusScale(R), BOID_INTERACTION_CIRCLE,
            billboard_mat4x4(R.view, R.positions[i], <<UNIT, 0>>,
                             vec_mul(BILLBOARD_SCALE, R.interactionRadius)),
            <<R.radiusColor[1], R.radiusColor[2], R.radiusColor[3],
              FMul(R.radiusColor[4], nfac(R, i))>>,
            BillboardTemps)

\* line 470: renderfunc(position, velocity, neighborCount)
renderfunc(R, i) ==
    IF R.boidRenderingType = "tetrahedron" THEN renderBoidTetrahedron(R, i)
    ELSE IF R.boidRenderingType = "billboard" THEN renderBoidBillboard(R, i)
    ELSE R

\* the loop of lines 466-476 from agent i on
RECURSIVE renderBoids(_, _)
renderBoids(R, i) ==
    IF settled(R) /\ i >= R.N THEN R
    ELSE renderBoids(renderRadius(renderfunc(R, i), i), i + 1)

\* lines 440-444
frameTemps(R) ==
    [R EXCEPT !.temp_vec2_1 = <<0, 0>>, !.temp_vec4_1 = <<0, 0, 0, 0>>,
              !.temp_vec4_2 = <<0, 0, 0, 0>>, !.temp_vec4_3 = <<0, 0, 0, 0>>,
              !.temp_vec4_4 = <<0, 0, 0, 0>>]

\* lines 446-449
boundsPass(R) ==
    IF R.shouldRenderBounds
    THEN renderBounds(alloc(R, "temp_vec2_2", <<0, 0>>))
    ELSE R

\* lines 452-464: the buffers of the loop over the agents
boidTemps(R) ==
    IF R.boidRenderingType = "tetrahedron"
    THEN [R EXCEPT !.temp_vec3_1 = ZERO, !.temp_mat4x4_1 = IDENTITY,
                   !.temp_vec2_2 = <<0, 0>>, !.temp_vec3_2 = ZERO,
                   !.temp_vec3_3 = ZERO]
    ELSE [R EXCEPT !.temp_vec3_1 = ZERO, !.temp_mat4x4_1 = IDENTITY]

\* lines 451-477
boidsPass(R) ==
    IF R.boidRenderingType # "none" \/ R.shouldRenderInteractionRadius
    THEN renderBoids(boidTemps(R), 0)
    ELSE R

\* line 479
treePass(R) == IF R.shouldRenderTree THEN renderTree(R) ELSE R

\* Renderer.render(), lines 437-480
render(R) == treePass(boidsPass(boundsPass(frameTemps(clearRect(R)))))

----------------------------------------------------------------------------
(* The frame loop: Manager.js and the main script around Boids.step() and  *)
(* Renderer.render().  The Boids object is in the variables of the Boids   *)
(* model; lastCall holds the Renderer, its canvas and the state of the     *)
(* Manager: whether the simulation is running (simulation.running of the   *)
(* store), whether a render has been requested with requestAnimationFrame  *)
(* and the number of frames update() has rendered.  The Manager is         *)
(* constructed with autoUpdate = true; its constructor has called          *)
(* Boids.init() and requested the first render.                            *)

MaxFrames == 1

\* bounds (-1,-1,-1)..(1,1,1), interaction radius 0.5, three agents, no
\* random velocity
FrameParams ==
    [BaseParams EXCEPT !.N = 3, !.accuracy = 2, !.interactionRadius = HALF,
                       !.boundsMin = vec3(-UNIT, -UNIT, -UNIT),
                       !.boundsMax = vec3(UNIT, UNIT, UNIT)]

\* outcomes of init's random draws: three agents near the centre, one of
\* them flying straight up; and a pair next to the faces x = 1 and z = 1
\* with a third agent out of their reach
FrameFlocks ==
    { [pos |-> <<vec3(0, 0, 0), vec3(100, 0, 0), vec3(0, 100, 0)>>,
       vel |-> <<vec3(0, UNIT, 0), vec3(UNIT, 0, 0), vec3(240, 320, 0)>>],
      [pos |-> <<vec3(396, 0, 396), vec3(240, 0, 360), vec3(-200, 0, -200)>>,
       vel |-> <<vec3(UNIT, 0, 0), vec3(0, 0, -UNIT), vec3(-480, 0, 640)>>] }

\* values of the accuracy input
AccuracySet == {1, 2}

BoidRenderingTypes == {"none", "tetrahedron", "billboard"}

\* mat4x4_translation(0, 0, -2): the camera looks down the z axis from (0,0,2)
FrameView == mat4x4(<<UNIT, 0, 0, 0>>, <<0, UNIT, 0, 0>>,
                    <<0, 0, UNIT, -2 * UNIT>>, <<0, 0, 0, UNIT>>)

\* mat4x4_projection(90, 1, 1, 3), matrix.js lines 377-395
FrameProjection ==
    <<UNIT, 0, 0, 0, 0, UNIT, 0, 0, 0, 0, -2 * UNIT, -UNIT, 0, 0, -3 * UNIT, 0>>

\* the 2D context of a canvas of 200 x 200 pixels
FrameCanvas ==
    [width |-> 200, height |-> 200, strokeStyle |-> <<0, 0, 0>>,
     fillStyle |-> <<0, 0, 0>>, pen |-> <<0, 0>>, path |-> 0,
     strokes |-> <<>>, fills |-> <<>>]

\* the Renderer of lines 225-240 with the default scale and colours
Renderer(type, radius, bounds, tree) ==
    [op |-> "construct", running |-> FALSE, pending |-> TRUE, frames |-> 0,
     view |-> FrameView, projection |-> FrameProjection, boidScale |-> 40,
     boidRenderingType |-> type, shouldRenderInteractionRadius |-> radius,
     shouldRenderBounds |-> bounds, shouldRenderTree |-> tree,
     minBoidColor |-> vec3(255 * UNIT, 63 * UNIT, 63 * UNIT),
     maxBoidColor |-> vec3(63 * UNIT, 255 * UNIT, 63 * UNIT),
     radiusColor |-> vec4(255 * UNIT, 63 * UNIT, 255 * UNIT, 50),
     boundsColor |-> vec4(255 * UNIT, 255 * UNIT, 255 * UNIT, 160),
     treeColor |-> vec4(63 * UNIT, 63 * UNIT, 255 * UNIT, 80),
     canvas |-> FrameCanvas]

\* a sequence as an array indexed from 0
Array(seq) == [i \in 0..(Len(seq) - 1) |-> seq[i + 1]]

FrameInit ==
    /\ params = FrameParams
    /\ \E flock \in FrameFlocks :
          /\ positions = Array(flock.pos)
          /\ velocities = Array(flock.vel)
          /\ dragged = Array(flock.vel)
          /\ integrated = Array(flock.pos)
          /\ octree = insertAll(domainTree(FrameParams.boundsMin,
                                           FrameParams.boundsMax),
                                Array(flock.pos), 0, FrameParams.N)
    /\ accelerations = [i \in 0..(FrameParams.N - 1) |-> ZERO]
    /\ neighborCount = [i \in 0..(FrameParams.N - 1) |-> 0]
    /\ scratch = NoScratch
    /\ pc = "idle"
    /\ cursor = 0
    /\ dt = 0
    /\ steps = 0
    /\ lastCall \in { Renderer(type, f[1], f[2], f[3]) :
                         type \in BoidRenderingTypes,
                         f \in BOOLEAN \X BOOLEAN \X BOOLEAN }

\* everything a call of render can reach
snapshot ==
    [positions |-> positions, velocities |-> velocities,
     accelerations |-> accelerations, neighbourCount |-> neighborCount,
     N |-> params.N, accuracy |-> params.accuracy,
     interactionRadius |-> params.interactionRadius,
     minBounds |-> params.boundsMin, maxBounds |-> params.boundsMax,
     tree |-> octree,
     view |-> lastCall.view, projection |-> lastCall.projection,
     boidScale |-> lastCall.boidScale,
     boidRenderingType |-> lastCall.boidRenderingType,
     shouldRenderInteractionRadius |-> lastCall.shouldRenderInteractionRadius,
     shouldRenderBounds |-> lastCall.shouldRenderBounds,
     shouldRenderTree |-> lastCall.shouldRenderTree,
     minBoidColor |-> lastCall.minBoidColor,
     maxBoidColor |-> lastCall.maxBoidColor,
     radiusColor |-> lastCall.radiusColor,
     boundsColor |-> lastCall.boundsColor, treeColor |-> lastCall.treeColor,
     canvas |-> lastCall.canvas,
     temp_vec2_1 |-> <<0, 0>>, temp_vec2_2 |-> <<0, 0>>,
     temp_vec3_1 |-> ZERO, temp_vec3_2 |-> ZERO, temp_vec3_3 |-> ZERO,
     temp_vec4_1 |-> <<0, 0, 0, 0>>, temp_vec4_2 |-> <<0, 0, 0, 0>>,
     temp_vec4_3 |-> <<0, 0, 0, 0>>, temp_vec4_4 |-> <<0, 0, 0, 0>>,
     temp_mat4x4_1 |-> IDENTITY,
     box_delta |-> <<0, 0, 0, 0>>, box_view_pos |-> <<0, 0, 0, 0>>,
     box_interpolated |-> <<0, 0, 0, 0>>, box_clipped_cpos |-> <<0, 0, 0, 0>>,
     box_screen_pos |-> <<0, 0>>, box_ndc |-> <<0, 0>>]

\* the objects after a call of render has returned with R
renderStore(R, op, frames) ==
    /\ positions' = R.positions
    /\ velocities' = R.velocities
    /\ accelerations' = R.accelerations
    /\ neighborCount' = R.neighbourCount
    /\ params' = [params EXCEPT !.N = R.N, !.accuracy = R.accuracy,
                                !.interactionRadius = R.interactionRadius,
                                !.boundsMin = R.minBounds,
                                !.boundsMax = R.maxBounds]
    /\ octree' = R.tree
    /\ lastCall' = [lastCall EXCEPT !.op = op, !.frames = frames,
                                    !.pending = (op = "update" /\ @),
                                    !.view = R.view,
                                    !.projection = R.projection,
                                    !.canvas = R.canvas]
    /\ UNCHANGED <<scratch, pc, cursor, dt, steps, dragged, integrated>>

\* update() has called step() and not yet render()
midUpdate == pc = "idle" /\ steps > lastCall.frames

\* between two tasks of the event loop
betweenTasks == pc = "idle" /\ steps = lastCall.frames

\* updateloop of the main script, lines 82-97, while the loop is running:
\* manager.update(dt) calls boids.step(dt) ...  A render requested while
\* the simulation was stopped was requested before start() requested the
\* loop, and runs before it.
updateStep(d) ==
    /\ betweenTasks
    /\ lastCall.running
    /\ ~lastCall.pending
    /\ steps < MaxFrames
    /\ stepRebuild(d)

\* ... and then renderer.render(), Manager.js lines 263-268
updateRender ==
    /\ midUpdate
    /\ renderStore(render(snapshot), "update", steps)

\* a render requested with requestAnimationFrame, Manager.js lines 188,
\* 283 and 347
animationFrame ==
    /\ betweenTasks
    /\ lastCall.pending
    /\ renderStore(render(snapshot), "frame", lastCall.frames)

\* the start and stop buttons, main script lines 236-241
setRunning(running) ==
    /\ betweenTasks
    /\ lastCall.running # running
    /\ lastCall' = [lastCall EXCEPT !.op = "running", !.running = running]
    /\ UNCHANGED <<positions, velocities, accelerations, neighborCount,
                   octree, params, scratch, pc, cursor, dt, steps, dragged,
                   integrated>>

\* a SET of boid.environment.accuracy: _notified with autoUpdate, Manager.js
\* lines 339-348, and the setter of Boids, line 664
setAccuracy(a) ==
    /\ betweenTasks
    /\ params' = [params EXCEPT !.accuracy = a]
    /\ lastCall' = [lastCall EXCEPT !.op = "accuracy",
                                    !.pending = @ \/ ~lastCall.running]
    /\ UNCHANGED <<positions, velocities, accelerations, neighborCount,
                   octree, scratch, pc, cursor, dt, steps, dragged,
                   integrated>>

FrameNext ==
    \/ updateStep(8)
    \/ \E u \in {ZERO} : stepForce(u)
    \/ stepIntegrate
    \/ updateRender
    \/ animationFrame
    \/ \E running \in BOOLEAN : setRunning(running)
    \/ \E a \in AccuracySet : setAccuracy(a)

SpecFrame == FrameInit /\ [][FrameNext]_vars

----------------------------------------------------------------------------
(* Manager.js and StateStore.js: SET actions on properties of the Boids    *)
(* object.  The Boids object is in params and positions; lastCall holds    *)
(* the store's values of the properties, the Manager's autoUpdate flag and *)
(* its #boidPropQueue, and whether a render has been requested.  The       *)
(* vectors boid.bounds.min and boid.bounds.max of the store are arrays     *)
(* that SET actions on a component change in place; minIsStore and         *)
(* maxIsStore tell whether #boundsMin and #boundsMax of the Boids object   *)
(* are these very arrays.  The simulation is stopped throughout.           *)

MaxDispatches == 2

\* Boids as #initBoids constructs it from the store (the constructor copies
\* the bounds, matrix.js lines 640-641), two agents
ManagerParams == [BaseParams EXCEPT !.N = 2]

\* positions after init(): next to the faces x = -5 and x = 5
ManagerPositions == Array(<<vec3(-1800, 0, 0), vec3(1800, 0, 0)>>)

\* values of the number inputs
TunableValues ==
    [accuracy |-> {2, 8}, drag |-> {2, UNIT}]

\* values of a component of boid.bounds.min and of boid.bounds.max
BoundValues ==
    [minBounds |-> {-5 * UNIT, -4 * UNIT}, maxBounds |-> {5 * UNIT, 4 * UNIT}]

\* the Manager of lines 176-188 with its store
Manager(autoUpdate) ==
    [op |-> "construct", autoUpdate |-> autoUpdate, running |-> FALSE,
     pending |-> TRUE, dispatched |-> 0, queue |-> <<>>,
     store |-> [accuracy |-> ManagerParams.accuracy,
                drag |-> ManagerParams.drag,
                minBounds |-> ManagerParams.boundsMin,
                maxBounds |-> ManagerParams.boundsMax],
     minIsStore |-> FALSE, maxIsStore |-> FALSE]

ManagerInit ==
    /\ params = ManagerParams
    /\ positions = ManagerPositions
    /\ velocities = Array(<<vec3(-UNIT, 0, 0), vec3(UNIT, 0, 0)>>)
    /\ accelerations = Array(<<ZERO, ZERO>>)
    /\ neighborCount = Array(<<0, 0>>)
    /\ octree = insertAll(domainTree(ManagerParams.boundsMin,
                                     ManagerParams.boundsMax),
                          ManagerPositions, 0, ManagerParams.N)
    /\ scratch = NoScratch
    /\ pc = "manager"
    /\ cursor = 0
    /\ dt = 0
    /\ steps = 0
    /\ dragged = <<>>
    /\ integrated = <<>>
    /\ lastCall \in { Manager(autoUpdate) : autoUpdate \in BOOLEAN }

\* #constrainBoids, matrix.js lines 1057-1059
constrainBoids(pos, min, max) ==
    [i \in DOMAIN pos |-> constrainBoid(pos[i], min, max)]

\* the Boids object p after this.#boids[prop] = value for a tunable
\* (setters of matrix.js lines 664 and 678)
assignTunable(p, prop, value) ==
    IF prop = "accuracy" THEN [p EXCEPT !.accuracy = value]
    ELSE [p EXCEPT !.drag = value]

\* the bounds of the Boids object p after this.#boids[prop] = array
\* (setters of matrix.js lines 706-709 and 723-726)
assignBounds(p, prop, array) ==
    IF prop = "minBounds" THEN [p EXCEPT !.boundsMin = array]
    ELSE [p EXCEPT !.boundsMax = array]

\* the Manager after the assignment of the store's array to the bounds
aliased(m, prop) ==
    IF prop = "minBounds" THEN [m EXCEPT !.minIsStore = TRUE]
    ELSE [m EXCEPT !.maxIsStore = TRUE]

\* setStateProperty on a component, StateStore.js lines 199-213: the array
\* of the store is changed in place, and with it the bounds of the Boids
\* object when they are this array
writeComponent(p, m, prop, k, value) ==
    IF (prop = "minBounds" /\ m.minIsStore) \/ (prop = "maxBounds" /\ m.maxIsStore)
    THEN assignBounds(p, prop, [m.store[prop] EXCEPT ![k] = value])
    ELSE p

\* one entry e of #boidPropQueue applied to the objects O = [p, pos, m],
\* Manager.js line 279; an entry for the bounds holds the store's array
applyEntry(O, e) ==
    IF e.prop \in {"minBounds", "maxBounds"}
    THEN [p |-> assignBounds(O.p, e.prop, O.m.store[e.prop]),
          pos |-> constrainBoids(O.pos,
                     assignBounds(O.p, e.prop, O.m.store[e.prop]).boundsMin,
                     assignBounds(O.p, e.prop, O.m.store[e.prop]).boundsMax),
          m |-> aliased(O.m, e.prop)]
    ELSE [p |-> assignTunable(O.p, e.prop, e.value), pos |-> O.pos, m |-> O.m]

RECURSIVE applyQueue(_, _, _)
applyQueue(O, queue, k) ==
    IF k > Len(queue) THEN O
    ELSE applyQueue(applyEntry(O, queue[k]), queue, k + 1)

\* lines 345-352 of _notified for a property of the Boids object
notified(O, e) ==
    IF O.m.autoUpdate
    THEN [applyEntry(O, e) EXCEPT !.m.pending = @ \/ ~O.m.running]
    ELSE [O EXCEPT !.m.queue = Append(@, e)]

managerStore(O, op) ==
    /\ params' = O.p
    /\ positions' = O.pos
    /\ lastCall' = [O.m EXCEPT !.op = op]
    /\ UNCHANGED <<velocities, accelerations, neighborCount, octree, scratch,
                   pc, cursor, dt, steps, dragged, integrated>>

\* SET of boid.environment.accuracy or boid.environment.drag: dispatch,
\* StateStore.js lines 380-385, and _notified
setTunable(prop, value) ==
    /\ pc = "manager"
    /\ lastCall.dispatched < MaxDispatches
    /\ managerStore(
          notified([p |-> params, pos |-> positions,
                    m |-> [lastCall EXCEPT !.store[prop] = value,
                                           !.dispatched = @ + 1]],
                   [prop |-> prop, value |-> value]),
          "set")

\* SET of boid.bounds.min[k] or boid.bounds.max[k], main script lines
\* 192-221: the entry of the queue holds store.get('boid.bounds.min'), the
\* array itself
setComponent(prop, k, value) ==
    /\ pc = "manager"
    /\ lastCall.dispatched < MaxDispatches
    /\ managerStore(
          notified([p |-> writeComponent(params, lastCall, prop, k, value),
                    pos |-> positions,
                    m |-> [lastCall EXCEPT !.store[prop][k] = value,
                                           !.dispatched = @ + 1]],
                   [prop |-> prop, value |-> 0]),
          "set")

\* Manager.updateProperties, lines 276-284
updateProperties ==
    /\ pc = "manager"
    /\ managerStore(
          applyQueue([p |-> params, pos |-> positions,
                      m |-> [lastCall EXCEPT !.queue = <<>>,
                                             !.pending = @ \/ ~lastCall.running]],
                     lastCall.queue, 1),
          "updateProperties")

\* the auto-apply checkbox, main script line 242, and Manager.js line 225
setAutoUpdate(u) ==
    /\ pc = "manager"
    /\ lastCall.autoUpdate # u
    /\ managerStore([p |-> params, pos |-> positions,
                     m |-> [lastCall EXCEPT !.autoUpdate = u]], "autoUpdate")

ManagerNext ==
    \/ \E prop \in {"accuracy", "drag"} :
          \E value \in TunableValues[prop] : setTunable(prop, value)
    \/ \E prop \in {"minBounds", "maxBounds"} :
          \E k \in Axes : \E value \in BoundValues[prop] :
             setComponent(prop, k, value)
    \/ updateProperties
    \/ \E u \in BOOLEAN : setAutoUpdate(u)

SpecManager == ManagerInit /\ [][ManagerNext]_vars

----------------------------------------------------------------------------
(* Vocabulary of the properties                                            *)

ToSet(seq) == { seq[k] : k \in DOMAIN seq }

NoRepeat(seq) == \A a, b \in DOMAIN seq : seq[a] = seq[b] => a = b

RECURSIVE Nodes(_)
Nodes(node) ==
    {node} \cup UNION { Nodes(node.children[k]) : k \in DOMAIN node.children }

Leaves(node) == { n \in Nodes(node) : isLeaf(n) }

RECURSIVE StoredTimes(_, _)
\* how many times index i is stored below node
StoredTimes(node, i) ==
    IF isLeaf(node)
    THEN Cardinality({ k \in DOMAIN node.indices : node.indices[k] = i })
    ELSE LET RECURSIVE Sum(_)
             Sum(k) == IF k = 0 THEN 0
                       ELSE StoredTimes(node.children[k], i) + Sum(k - 1)
         IN Sum(Len(node.children))

Stored(node, i) == StoredTimes(node, i) >= 1

InBox(min, max, p) == \A k \in Axes : min[k] <= p[k] /\ p[k] < max[k]

\* squared Euclidean distance, the brute-force reference
Dist2(p, c) ==
    (p[1] - c[1]) * (p[1] - c[1]) + (p[2] - c[2]) * (p[2] - c[2])
        + (p[3] - c[3]) * (p[3] - c[3])

\* squared minimum-image distance in a torus of the given extent
MinImage(d, s) == Min2(Abs(d), Abs(s - Abs(d)))

WrappedDist2(p, c, size) ==
    LET m == [k \in Axes |-> MinImage(p[k] - c[k], size[k])]
    IN m[1] * m[1] + m[2] * m[2] + m[3] * m[3]

----------------------------------------------------------------------------
(* Properties of the Octree (checked under SpecTree)                       *)

RootMin == vec3(-UNIT, -UNIT, -UNIT)

RootMax == vec3(UNIT, UNIT, UNIT)

AllInsideRoot == \A i \in DOMAIN positions : InBox(RootMin, RootMax, positions[i])

\* C1: for a tree built by inserting 0..N-1 in order, all positions inside
\* the root box, queryRadius returns exactly the indices within the radius
\* of the centre, each once: the result of a brute-force scan.
C1_QueryRadiusIsBruteForce ==
    (pc = "tree" /\ AllInsideRoot) =>
        \A c \in QueryCenters, r \in QueryRadii :
            LET found == queryRadius(octree, positions, c, r, <<>>)
            IN /\ ToSet(found) =
                    { i \in DOMAIN positions : Dist2(positions[i], c) <= r * r }
               /\ NoRepeat(found)

\* C4: queryRadiusWrapped centred on a stored agent reports every stored
\* agent whose minimum-image distance to the centre is within the radius,
\* also one near the opposite face of the domain.
C4_WrappedQueryFindsAcrossFaces ==
    pc = "tree" =>
        \A j \in DOMAIN positions, r \in QueryRadii :
            Stored(octree, j) =>
                LET c == positions[j]
                    found == queryRadiusWrapped(octree, positions, c, r)
                IN \A i \in DOMAIN positions :
                      (Stored(octree, i)
                          /\ WrappedDist2(positions[i], c, octree.size) <= r * r)
                      => i \in ToSet(found)

\* the step is a call insert(boids, Count) on the root
IsInsertStep == pc = "tree" /\ Count' = Count + 1

\* C5: insert on the root returns true and stores the index whenever the
\* position is inside the root's half-open box; it returns false and leaves
\* the tree unchanged exactly when the position is outside.
C5_InsertReportsMembership ==
    [][ IsInsertStep =>
          IF InBox(RootMin, RootMax, positions'[Count])
          THEN lastCall'.ret = "true" /\ Stored(octree', Count)
          ELSE lastCall'.ret = "false" /\ octree' = octree ]_vars

\* C6: after any sequence of inserts every leaf holds at most MAX_CAPACITY
\* indices.
C6_LeafWithinCapacity ==
    pc = "tree" => \A n \in Leaves(octree) : Len(n.indices) <= MAX_CAPACITY

\* a leaf is full, below a node that an insert has subdivided, and the
\* positions table holds MAX_CAPACITY + 2 coincident points
C6_Witness ==
    /\ pc = "tree"
    /\ ~isLeaf(octree)
    /\ \E n \in Leaves(octree) : Len(n.indices) = MAX_CAPACITY
    /\ \E p \in TreePoints :
          Cardinality({ i \in DOMAIN positions : positions[i] = p })
              >= MAX_CAPACITY + 2

\* C7: every node is a leaf, or an internal node with exactly 8 children
\* that holds no indices of its own.
C7_LeafXorEightChildren ==
    pc = "tree" =>
        \A n \in Nodes(octree) :
            \/ n.children = <<>>
            \/ Len(n.children) = 8 /\ n.indices = <<>>

\* an internal node below an internal root
C7_Witness ==
    /\ pc = "tree"
    /\ ~isLeaf(octree)
    /\ \E k \in DOMAIN octree.children : ~isLeaf(octree.children[k])

RECURSIVE TargetLeaf(_, _)
\* the leaf of the tree whose half-open box holds point p (p inside node)
TargetLeaf(node, p) ==
    IF isLeaf(node) THEN node
    ELSE TargetLeaf(node.children[CHOOSE k \in DOMAIN node.children :
                        InBox(boxMin(node.children[k]), boxMax(node.children[k]), p)],
                    p)

\* probe coordinates on and just off the faces and the mid-planes of a box
ProbeAxis(lo, hi) ==
    { lo - 1, lo, (lo + hi) \div 2 - 1, (lo + hi) \div 2, hi - 1, hi }

Probes(n) ==
    LET lo == boxMin(n)
        hi == boxMax(n)
    IN { vec3(x, y, z) : x \in ProbeAxis(lo[1], hi[1]),
                         y \in ProbeAxis(lo[2], hi[2]),
                         z \in ProbeAxis(lo[3], hi[3]) } \cup TreePoints

Signs == { vec3(sx, sy, sz) : sx \in {-1, 1}, sy \in {-1, 1}, sz \in {-1, 1} }

\* n is internal, with 8 children of half its size per axis, centred at its
\* centre plus or minus a quarter of its size in the 8 sign combinations,
\* and each probe point of n's half-open box is in exactly one child's
\* half-open box (no probe point outside n is in any child)
EightOctants(n) ==
    /\ Len(n.children) = 8
    /\ \A k \in 1..8 : \A a \in Axes : 2 * n.children[k].size[a] = n.size[a]
    /\ { n.children[k].center : k \in 1..8 } =
          { [a \in Axes |-> n.center[a] + sg[a] * (n.size[a] \div 4)] : sg \in Signs }
    /\ \A a \in Axes : 4 * (n.size[a] \div 4) = n.size[a]
    /\ LET lo == [k \in 1..8 |-> boxMin(n.children[k])]
           hi == [k \in 1..8 |-> boxMax(n.children[k])]
           nlo == boxMin(n)
           nhi == boxMax(n)
       IN \A p \in Probes(n) :
             Cardinality({ k \in 1..8 : InBox(lo[k], hi[k], p) })
               = IF InBox(nlo, nhi, p) THEN 1 ELSE 0

\* C8: inserting into a leaf that already holds MAX_CAPACITY indices makes
\* that node internal with 8 children that are its 8 octants: half its size,
\* centred a quarter of its size off its centre in every sign combination,
\* pairwise disjoint and covering its half-open box.
C8_SubdivisionMakesEightOctants ==
    [][ (IsInsertStep /\ InBox(RootMin, RootMax, positions'[Count])
            /\ Len(TargetLeaf(octree, positions'[Count]).indices) >= MAX_CAPACITY)
        => LET leaf == TargetLeaf(octree, positions'[Count])
           IN \E n \in Nodes(octree') :
                 /\ n.center = leaf.center
                 /\ n.size = leaf.size
                 /\ ~isLeaf(n)
                 /\ EightOctants(n) ]_vars

\* the insert just returned from subdividing the root of size (2,2,2): its
\* children have size (1,1,1)
C8_Witness ==
    /\ pc = "tree"
    /\ lastCall.op = "insert" /\ lastCall.ret = "undefined"
    /\ Count = MAX_CAPACITY + 1
    /\ Len(octree.children) = 8
    /\ \A k \in DOMAIN octree.children :
          octree.children[k].size = vec3(UNIT, UNIT, UNIT)

----------------------------------------------------------------------------
(* Properties of Boids (checked under Spec)                                *)

AfterInit == pc = "idle" /\ steps = 0

AfterRebuild == pc = "force" /\ cursor = 0

AfterStep == pc = "idle" /\ steps > 0

\* C2: at the end of init() and at the end of the rebuild phase of every
\* step, each agent index 0..N-1 is stored in exactly one leaf of the tree.
C2_EveryAgentIndexedOnce ==
    (AfterInit \/ AfterRebuild) =>
        \A i \in Agents : StoredTimes(octree, i) = 1

\* C3: after every completed step every coordinate of every position is in
\* [min, max), the upper bound exclusive (min < max on every axis).
C3_PositionsInHalfOpenDomain ==
    AfterStep =>
        \A i \in Agents : InBox(params.boundsMin, params.boundsMax, positions[i])

\* the position an iteration of the integration pass hands to #constrainBoid:
\* the old position plus the new velocity times dt
Integrated(i) == vec_add(positions[i], vec_mul(velocities'[i], dt))

\* C9: the integration pass leaves each axis of the integrated position at
\* exactly max when it is below min, at exactly min when it is above max,
\* and unchanged when it is within [min, max].
C9_BoundaryTeleport ==
    [][ pc = "integrate" =>
          \A k \in Axes :
             LET x == Integrated(cursor)[k]
                 lo == params.boundsMin[k]
                 hi == params.boundsMax[k]
             IN positions'[cursor][k] =
                   IF x < lo THEN hi ELSE IF x > hi THEN lo ELSE x ]_vars

\* a completed step in which one agent left through the minimum face, one
\* through the maximum face and one stayed inside
C9_Witness ==
    /\ AfterStep
    /\ \E i \in Agents : integrated[i][1] < params.boundsMin[1]
                            /\ positions[i][1] = params.boundsMax[1]
    /\ \E i \in Agents : integrated[i][1] > params.boundsMax[1]
                            /\ positions[i][1] = params.boundsMin[1]
    /\ \E i \in Agents : integrated[i] = positions[i]
                            /\ InBox(params.boundsMin, params.boundsMax, positions[i])

\* allowance for the rounding of a rescaled velocity (about 0.015)
SpeedTol == UNIT \div 64

Cross(a, b) ==
    vec3(a[2] * b[3] - a[3] * b[2], a[3] * b[1] - a[1] * b[3],
         a[1] * b[2] - a[2] * b[1])

Norm1(v) == Abs(v[1]) + Abs(v[2]) + Abs(v[3])

\* |v| is in [minSpeed, maxSpeed] up to the rounding
SpeedWithin(v) ==
    /\ vec_smag(v) >= (params.minSpeed - SpeedTol) * (params.minSpeed - SpeedTol)
    /\ vec_smag(v) <= (params.maxSpeed + SpeedTol) * (params.maxSpeed + SpeedTol)

\* v points along d (parallel, not inverted) up to the rounding
SameDirection(d, v) ==
    /\ vec_dot(d, v) >= 0
    /\ \A k \in Axes : Abs(Cross(d, v)[k]) <= SpeedTol * Norm1(d)

\* C10: after every step with 0 < minSpeed <= maxSpeed the magnitude of
\* every velocity is in [minSpeed, maxSpeed], and the clamp only rescaled
\* the velocity (after acceleration and drag) along its own direction.
C10_SpeedClamped ==
    (AfterStep /\ 0 < params.minSpeed /\ params.minSpeed <= params.maxSpeed) =>
        \A i \in Agents :
            SpeedWithin(velocities[i]) /\ SameDirection(dragged[i], velocities[i])

\* C11: after every step with accuracy >= 1, the neighbour count of each
\* agent is at most accuracy and at most N - 1: the loop stops at the cap
\* and an agent is never its own neighbour.
C11_NeighborCountCapped ==
    (AfterStep /\ params.accuracy >= 1) =>
        \A i \in Agents :
            neighborCount[i] <= params.accuracy /\ neighborCount[i] <= params.N - 1

\* the force pass is over and the cap stopped the loop of an agent that has
\* more indexed agents at its own position than the cap
C11_Witness ==
    /\ pc = "integrate" /\ cursor = 0 /\ params.accuracy >= 1
    /\ \E i \in Agents :
          /\ neighborCount[i] = params.accuracy
          /\ Cardinality({j \in Agents \ {i} : Stored(octree, j)
                             /\ positions[j] = positions[i]}) > params.accuracy

----------------------------------------------------------------------------
(* Properties of the clipping (checked under SpecClip)                     *)

\* dot(point, plane) >= 0 for plane k
InsidePlane(p, k) == vec4_dot(p, CLIP_PLANES[k]) >= 0

InsideFrustum(p) == \A k \in DOMAIN CLIP_PLANES : InsidePlane(p, k)

IsClipLine == pc = "clip" /\ lastCall.op = "ClipLine" /\ lastCall.done

\* C12: ClipLine returns {t_min: 0, t_max: 1} for every segment whose two
\* endpoints both satisfy all six plane inequalities dot(point, plane) >= 0.
C12_InsideSegmentKept ==
    (IsClipLine /\ InsideFrustum(lastCall.p1) /\ InsideFrustum(lastCall.p2)) =>
        lastCall.ret = [null |-> FALSE, t_min |-> <<0, 1>>, t_max |-> <<1, 1>>]

\* a segment inside the frustum that ends on a face, parallel to some
\* planes and not to others, came back whole
C12_Witness ==
    /\ IsClipLine /\ InsideFrustum(lastCall.p1) /\ InsideFrustum(lastCall.p2)
    /\ vec4_dot(lastCall.p2, CLIP_PLANES[1]) = 0
    /\ vec4_dot(lastCall.p1, CLIP_PLANES[1]) > 0
    /\ ~lastCall.ret.null /\ lastCall.ret.t_max = <<1, 1>>

\* dot(point, plane) < 0 for plane k
OutsidePlane(p, k) == vec4_dot(p, CLIP_PLANES[k]) < 0

\* C13: ClipLine returns null for every segment whose two endpoints both lie
\* strictly outside the same plane, whatever their side of the other five.
C13_OutsideSegmentCulled ==
    (IsClipLine /\ \E k \in DOMAIN CLIP_PLANES :
                      OutsidePlane(lastCall.p1, k) /\ OutsidePlane(lastCall.p2, k)) =>
        lastCall.ret.null

\* a culled segment that is outside the right plane at both ends and not
\* parallel to it, with one end inside and one end outside the top plane
C13_Witness ==
    /\ IsClipLine /\ lastCall.ret.null
    /\ OutsidePlane(lastCall.p1, 1) /\ OutsidePlane(lastCall.p2, 1)
    /\ Abs(vec4_dot(vec4_sub(lastCall.p2, lastCall.p1), CLIP_PLANES[1])) >= PARALLEL_EPS
    /\ InsidePlane(lastCall.p1, 3) /\ OutsidePlane(lastCall.p2, 3)

\* the planes a point is outside of
OutsidePlanes(p) == {k \in DOMAIN CLIP_PLANES : OutsidePlane(p, k)}

\* the parameter -dot(p1, plane) / dot(p2 - p1, plane) of plane k
PlaneParameter(p1, p2, k) ==
    Frac(-vec4_dot(p1, CLIP_PLANES[k]),
         vec4_dot(vec4_sub(p2, p1), CLIP_PLANES[k]))

\* the result has the parameter on the side of the outside endpoint at
\* the intersection with plane k and the other one at its initial value
ClippedAt(ret, p1, p2, k) ==
    /\ ~ret.null
    /\ IF OutsidePlane(p2, k)
       THEN ret.t_min = <<0, 1>> /\ ret.t_max = PlaneParameter(p1, p2, k)
       ELSE ret.t_min = PlaneParameter(p1, p2, k) /\ ret.t_max = <<1, 1>>
    /\ ~FracLess(ret.t_min, <<0, 1>>) /\ FracLess(ret.t_min, ret.t_max)
    /\ ~FracLess(<<1, 1>>, ret.t_max)

\* one endpoint of the call is inside all six planes and the other one is
\* outside plane k and no other
CrossesOnly(k) ==
    /\ IsClipLine
    /\ \/ InsideFrustum(lastCall.p1) /\ OutsidePlanes(lastCall.p2) = {k}
       \/ InsideFrustum(lastCall.p2) /\ OutsidePlanes(lastCall.p1) = {k}

\* C14 as stated: for a segment with one endpoint inside all six planes
\* (dot >= 0) and the other one outside exactly one plane, ClipLine returns
\* a result whose parameter on the outside endpoint's side is the
\* intersection parameter with that plane, the other parameter keeping its
\* initial value, with 0 <= t_min < t_max <= 1.
C14_CrossingSegmentClipped ==
    \A k \in DOMAIN CLIP_PLANES :
        CrossesOnly(k) => ClippedAt(lastCall.ret, lastCall.p1, lastCall.p2, k)

\* the inside endpoint is off plane k and the direction of the segment is
\* not within 1e-6 of parallel to plane k
CrossesProperly(k) ==
    /\ vec4_dot(lastCall.p1, CLIP_PLANES[k]) # 0
    /\ vec4_dot(lastCall.p2, CLIP_PLANES[k]) # 0
    /\ Abs(vec4_dot(vec4_sub(lastCall.p2, lastCall.p1), CLIP_PLANES[k]))
          >= PARALLEL_EPS

\* C14, amended: the same result for a segment whose inside endpoint is
\* strictly inside the crossed plane (dot > 0) and whose direction has
\* |dot(p2 - p1, plane)| >= 1e-6 for that plane.
C14_ProperCrossingClipped ==
    \A k \in DOMAIN CLIP_PLANES :
        (CrossesOnly(k) /\ CrossesProperly(k)) =>
            ClippedAt(lastCall.ret, lastCall.p1, lastCall.p2, k)

\* a segment from inside to outside the right plane was cut at a parameter
\* strictly between 0 and 1
C14_Witness ==
    /\ CrossesOnly(1) /\ CrossesProperly(1)
    /\ InsideFrustum(lastCall.p1)
    /\ ~lastCall.ret.null
    /\ FracLess(<<0, 1>>, lastCall.ret.t_max) /\ FracLess(lastCall.ret.t_max, <<1, 1>>)

IsClipPolygon == pc = "clip" /\ lastCall.op = "ClipPolygon" /\ lastCall.done

\* dot(vertex, plane) >= 0 for all six planes
VertexInside(p) == \A k \in DOMAIN CLIP_PLANES : vertexDot(p, CLIP_PLANES[k]) >= 0

\* C15: ClipPolygon returns the same vertices in the same order, none
\* added and none removed, for every polygon (of at least one vertex) whose
\* vertices all satisfy the six plane inequalities.
C15_InsidePolygonUnchanged ==
    (IsClipPolygon /\ Len(lastCall.polygon) > 0
        /\ \A i \in DOMAIN lastCall.polygon : VertexInside(lastCall.polygon[i])) =>
        lastCall.ret = [null |-> FALSE, out |-> lastCall.polygon]

\* a triangle of three different vertices, one of them on a face, came
\* back as it was
C15_Witness ==
    /\ IsClipPolygon /\ Len(lastCall.polygon) = 3
    /\ \A i \in 1..3 : VertexInside(lastCall.polygon[i])
    /\ Cardinality(ToSet(lastCall.polygon)) = 3
    /\ \E i \in 1..3 : vertexDot(lastCall.polygon[i], CLIP_PLANES[1]) = 0
    /\ ~lastCall.ret.null /\ Len(lastCall.ret.out) = 3

\* C16: ClipPolygon returns null for every polygon whose vertices all lie
\* strictly outside the same plane, and for the empty vertex list.
C16_OutsidePolygonCulled ==
    (IsClipPolygon /\ \E k \in DOMAIN CLIP_PLANES :
                        \A i \in DOMAIN lastCall.polygon :
                            vertexDot(lastCall.polygon[i], CLIP_PLANES[k]) < 0) =>
        lastCall.ret.null

\* the ring that reaches the stage after plane k when no stage culls
RECURSIVE RingAfter(_, _)
RingAfter(g, k) ==
    IF k = 0 THEN g ELSE clipRing(RingAfter(g, k - 1), CLIP_PLANES[k], 1, <<>>)

\* a culled triangle that lies outside the near plane and has vertices on
\* both sides of the right plane and of the top plane: the stages before
\* the near plane leave a ring with an interpolated vertex
C16_Witness ==
    /\ IsClipPolygon /\ Len(lastCall.polygon) = 3 /\ lastCall.ret.null
    /\ \A i \in 1..3 : vertexDot(lastCall.polygon[i], CLIP_PLANES[6]) < 0
    /\ \A k \in {1, 3} :
          /\ \E i \in 1..3 : vertexDot(lastCall.polygon[i], CLIP_PLANES[k]) < 0
          /\ \E i \in 1..3 : vertexDot(lastCall.polygon[i], CLIP_PLANES[k]) > 0
    /\ \E v \in ToSet(RingAfter(lastCall.polygon, 5)) :
          v \notin ToSet(lastCall.polygon)

----------------------------------------------------------------------------
(* Properties of the vector helpers (checked under SpecVector)             *)

IsVecNorm == pc = "vector" /\ lastCall.op = "vec_norm" /\ lastCall.done

\* C17: vec_norm of a vector whose magnitude is below 1e-8 returns the zero
\* vector of the same dimension, with and without an output buffer.
C17_NormOfZeroIsZero ==
    (IsVecNorm /\ vec_smag(lastCall.v) = 0) => lastCall.ret = <<0, 0, 0>>

IsRoundTrip == pc = "vector" /\ lastCall.op = "vec4_to_vec3" /\ lastCall.done

\* C19: for every 3-component vector v and every w,
\* vec4_to_vec3(vec3_to_vec4(v, w)) has exactly the components of v, with
\* and without output buffers.
C19_RoundTripKeepsVector ==
    IsRoundTrip => lastCall.ret = lastCall.v

\* a round trip through two used buffers, with w and the components of v
\* all different from each other and from the old buffer contents
C19_Witness ==
    /\ IsRoundTrip
    /\ lastCall.v = vec3(7, -UNIT, 0) /\ lastCall.w = -3
    /\ lastCall.out4 # <<>> /\ lastCall.out3 # <<>>
    /\ lastCall.v4 = vec4(7, -UNIT, 0, -3)
    /\ lastCall.ret = vec3(7, -UNIT, 0)

----------------------------------------------------------------------------
(* Further properties of Boids (checked under Spec)                        *)

\* the four tables have exactly the entries 0 .. N - 1
TablesHaveLengthN ==
    /\ DOMAIN positions = Agents
    /\ DOMAIN velocities = Agents
    /\ DOMAIN accelerations = Agents
    /\ DOMAIN neighborCount = Agents

\* a step of step(dt): the rebuild, one iteration of the force pass or one
\* iteration of the integration pass
IsStepOfStep ==
    /\ pc \in {"idle", "force", "integrate"}
    /\ pc' \in {"force", "integrate", "idle"}

\* the tables keep their entries, and only the entries of the agent of the
\* current iteration are written
IndexKept ==
    /\ DOMAIN positions' = DOMAIN positions
    /\ DOMAIN velocities' = DOMAIN velocities
    /\ DOMAIN accelerations' = DOMAIN accelerations
    /\ DOMAIN neighborCount' = DOMAIN neighborCount
    /\ \A j \in Agents \ {cursor} :
          /\ positions'[j] = positions[j]
          /\ velocities'[j] = velocities[j]
          /\ accelerations'[j] = accelerations[j]
          /\ neighborCount'[j] = neighborCount[j]

\* C18: after init() and after any number of step(dt) calls the position,
\* velocity, acceleration and neighbour-count tables all have length
\* exactly N, and step never changes which index an agent occupies.
C18_TablesKeepLengthAndIndex ==
    /\ []((AfterInit \/ AfterStep) => TablesHaveLengthN)
    /\ [][IsStepOfStep => IndexKept]_vars

\* two steps after init(), five agents in five entries, not all at the
\* same place
C18_Witness ==
    /\ AfterStep /\ steps >= 2 /\ params.N = 5 /\ TablesHaveLengthN
    /\ \E i, j \in Agents : positions[i] # positions[j]

\* the raw delta d folded per axis by the extent e
FoldByExtent(d, e) ==
    [k \in Axes |->
        IF 2 * d[k] > e[k] THEN d[k] - e[k]
        ELSE IF 2 * d[k] < -e[k] THEN d[k] + e[k]
        ELSE d[k]]

\* the candidates of agent i in traversal order, each with the delta the
\* neighbour loop computes for it
DeltasUsed(i) ==
    neighborLoop(forceStart, i,
                 queryRadiusWrapped(octree, positions, positions[i],
                                    params.interactionRadius), 1).deltas

\* C20: in the force pass, for every candidate neighbour j of agent i, the
\* first and every later one, the delta used for the distance test and the
\* separation term is positions[j] - positions[i] folded per axis by the
\* extent max - min of the domain.
C20_DeltaFoldedByExtent ==
    pc = "force" =>
        \A e \in ToSet(DeltasUsed(cursor)) :
            e.delta = FoldByExtent(vec_sub(positions[e.j], positions[cursor]),
                                   vec_sub(params.boundsMax, params.boundsMin))

\* a step that writes an entry of the position or velocity table
WritesMotion == positions' # positions \/ velocities' # velocities

\* one iteration of the force pass: it writes the acceleration and the
\* neighbour count of its own agent (and scratch buffers) and nothing else,
\* the acceleration is the one the current positions and velocities give,
\* and the integration pass starts after the iteration of agent N - 1 only
ForcePassStep ==
    /\ ~WritesMotion
    /\ octree' = octree /\ params' = params
    /\ \A j \in Agents \ {cursor} :
          accelerations'[j] = accelerations[j] /\ neighborCount'[j] = neighborCount[j]
    /\ \E u \in JitterSet : accelerations'[cursor] = forceAgent(cursor, u).acc
    /\ IF cursor = params.N - 1
       THEN pc' = "integrate"
       ELSE pc' = "force" /\ cursor' = cursor + 1

\* C21: within one step(dt) no position or velocity entry is written until
\* the accelerations of all N agents are stored: the rebuild and the force
\* pass write neither table, the force pass visits the agents 0 .. N - 1
\* in turn and computes each acceleration from the positions and
\* velocities of the entry of step, and writes only accelerations,
\* neighbour counts and scratch buffers.
C21_ForcesBeforeIntegration ==
    [][ /\ (pc = "idle" /\ pc' = "force") => (cursor' = 0 /\ ~WritesMotion)
        /\ pc = "force" => ForcePassStep
        /\ (IsStepOfStep /\ WritesMotion) => pc = "integrate" ]_vars

\* the force pass of the first step is over for five agents: accelerations
\* are stored and no position has been written since init()
C21_Witness ==
    /\ pc = "integrate" /\ cursor = 0 /\ steps = 1 /\ params.N = 5
    /\ \A i \in Agents : positions[i] = integrated[i]
    /\ Cardinality({i \in Agents : accelerations[i] # ZERO}) >= 2

----------------------------------------------------------------------------
(* Further properties of the Octree (checked under SpecTree)               *)

IsWrappedQuery == pc = "tree" /\ lastCall.op = "queryRadiusWrapped"

C23_SubdivideOnlyOnLeaf ==
    pc = "tree" =>
        /\ lastCall.ret # "throw"
        /\ \A n \in Nodes(octree) : subdivide(n, positions).threw = ~isLeaf(n)

\* an insert has just subdivided a leaf below a root that was already
\* subdivided by an earlier insert
C23_Witness ==
    /\ pc = "tree" /\ lastCall.op = "insert" /\ lastCall.ret = "false"
    /\ contains(octree, positions[lastCall.index])
    /\ \E k \in DOMAIN octree.children :
          /\ ~isLeaf(octree.children[k])
          /\ \E n \in Leaves(octree.children[k]) : Len(n.indices) = MAX_CAPACITY

----------------------------------------------------------------------------
(* Further properties of the vector helpers (checked under SpecVector)     *)

IsVecLerp == pc = "vector" /\ lastCall.op = "vec_lerp" /\ lastCall.done

\* (1 - t) * a + t * b componentwise
Interpolated(a, b, t) ==
    [i \in 1..Len(a) |-> FMul(UNIT - t, a[i]) + FMul(t, b[i])]

\* C30: vec_lerp(a, b, t, clamp) restricts t to [0, 1] when clamp is true
\* and uses t unmodified when clamp is false; the result is
\* (1 - t) * a + t * b componentwise for the t actually used.
C30_LerpClampsOnRequest ==
    IsVecLerp =>
        lastCall.ret =
            Interpolated(lastCall.a, lastCall.b,
                         IF lastCall.clamp
                         THEN Min2(Max2(lastCall.t, 0), UNIT)
                         ELSE lastCall.t)

----------------------------------------------------------------------------
(* Further properties of the Octree, second part (checked under SpecTree)  *)

\* the number of nodes with children: each #subdivide adds one
Subdivided(node) == Cardinality({ n \in Nodes(node) : ~isLeaf(n) })

RECURSIVE Depth(_)
Depth(node) ==
    IF isLeaf(node) THEN 0
    ELSE 1 + CHOOSE d \in 0..MaxInserts :
                 /\ \A k \in DOMAIN node.children : Depth(node.children[k]) <= d
                 /\ \E k \in DOMAIN node.children : Depth(node.children[k]) = d

\* C29: insert terminates for every tree and every position, also when more
\* than MAX_CAPACITY agents share a position: one insert performs at most
\* one subdivision and deepens the tree by at most one level.
C29_InsertSubdividesAtMostOnce ==
    [][ (pc = "tree" /\ lastCall'.op = "insert") =>
            /\ lastCall'.ret \in {"true", "false", "undefined"}
            /\ Subdivided(octree') <= Subdivided(octree) + 1
            /\ Depth(octree') <= Depth(octree) + 1 ]_vars

\* six agents at one position: the insert of the sixth has split the full
\* octant below the root and returned
C29_Witness ==
    /\ pc = "tree" /\ lastCall.op = "insert" /\ Count = MAX_CAPACITY + 2
    /\ \A i \in DOMAIN positions : positions[i] = positions[0]
    /\ Subdivided(octree) = 2 /\ Depth(octree) = 2

----------------------------------------------------------------------------
(* Properties of Canvas (checked under SpecCanvas)                         *)

\* C27: after autoResize is set to false a window 'resize' event neither
\* resizes the canvas element nor dispatches the Canvas 'resize' event, and
\* after any sequence of autoResize toggles at most one window 'resize'
\* listener of the canvas is registered.
C27_AutoResizeOffUnbinds ==
    /\ [](pc = "canvas" => Cardinality(lastCall.listeners) <= 1)
    /\ [][ (pc = "canvas" /\ ~lastCall.autoResize
               /\ lastCall'.op = "windowResize") =>
              /\ lastCall'.size = lastCall.size
              /\ lastCall'.events = lastCall.events ]_vars

----------------------------------------------------------------------------
(* Properties of UIExclusiveButtonState (checked under SpecButtons)        *)

\* the managed buttons that are in the active state
ActiveButtons ==
    { k \in DOMAIN lastCall.buttons :
        readButton(lastCall.buttons[k]) # lastCall.invert }

\* C28: after construction and after any sequence of clicks on its buttons
\* exactly one managed button is in the active state and `active` refers
\* to it; a click on the already-active button changes nothing and
\* dispatches no 'change' event.
C28_ExactlyOneActive ==
    /\ [](pc = "buttons" => ActiveButtons = {lastCall.active})
    /\ [][ (pc = "buttons" /\ lastCall'.clicked = lastCall.active
               /\ lastCall'.clicks # lastCall.clicks) =>
              /\ lastCall'.buttons = lastCall.buttons
              /\ lastCall'.active = lastCall.active
              /\ lastCall'.changes = lastCall.changes ]_vars

\* the third of three buttons has become active by a click, in inverted
\* mode, after an earlier click on the button that was active already
C28_Witness ==
    /\ pc = "buttons" /\ lastCall.invert /\ Len(lastCall.buttons) = 3
    /\ lastCall.op = "click" /\ lastCall.active = 3 /\ lastCall.clicked = 3
    /\ lastCall.changes = 1 /\ lastCall.clicks = 2
    /\ lastCall.value = "free"

----------------------------------------------------------------------------
(* Properties of the frame loop                                            *)

\* a step in which Renderer.render() runs, from update() or as a requested
\* animation frame
RenderStep == lastCall' # lastCall /\ lastCall'.op \in {"update", "frame"}

\* C24: Renderer.render(), in every rendering mode and with every
\* combination of the bounds, tree and radius flags, leaves the positions,
\* velocities, accelerations, neighbour counts, bounds and spatial index of
\* the simulation unchanged, and leaves the view and projection matrices
\* unchanged.
C24_RenderLeavesSimulationUnchanged ==
    [][ RenderStep =>
          /\ positions' = positions
          /\ velocities' = velocities
          /\ accelerations' = accelerations
          /\ neighborCount' = neighborCount
          /\ params' = params
          /\ octree' = octree
          /\ lastCall'.view = lastCall.view
          /\ lastCall'.projection = lastCall.projection ]_vars

\* update() has rendered a stepped flock as tetrahedra with the bounds, the
\* tree and the interaction radii: every pass has drawn
C24_Witness ==
    /\ lastCall.op = "update"
    /\ steps = 1
    /\ lastCall.boidRenderingType = "tetrahedron"
    /\ lastCall.shouldRenderBounds
    /\ lastCall.shouldRenderTree
    /\ lastCall.shouldRenderInteractionRadius
    /\ Len(lastCall.canvas.fills) >= 2
    /\ Len(lastCall.canvas.strokes) >= 1 + params.N + 1
    /\ \A k \in 1..(1 + params.N) : lastCall.canvas.strokes[k].lines > 0
    /\ \E i \in Agents : Norm1(velocities[i]) > 2 * UNIT

\* every component of c lies between the components of a and b
Between(c, a, b) ==
    \A k \in 1..Len(a) : Min2(a[k], b[k]) <= c[k] /\ c[k] <= Max2(a[k], b[k])

\* C26: whenever render() runs, in any interleaving of step, accuracy
\* changes through the Manager and render, every boid has
\* 0 <= neighbourCount[i] <= accuracy, so the interpolation factor
\* neighbourCount / accuracy lies in [0, 1] and the colour of the boid lies
\* between minBoidColor and maxBoidColor.
C26_RenderedCountsWithinAccuracy ==
    [][ RenderStep =>
          \A i \in Agents :
             /\ 0 <= neighborCount[i]
             /\ neighborCount[i] <= params.accuracy
             /\ ratio(neighborCount[i], params.accuracy) \in 0..UNIT
             /\ Between(boidGradient(lastCall, neighborCount[i],
                                     params.accuracy, <<>>),
                        lastCall.minBoidColor, lastCall.maxBoidColor) ]_vars

----------------------------------------------------------------------------
(* Properties of the Manager                                               *)

\* a step in which a SET action is dispatched to the store
DispatchStep == lastCall'.dispatched = lastCall.dispatched + 1

\* C25: while Manager.autoUpdate is false, a SET action dispatched to the
\* state store for a property of the Boids object (a tunable or a component
\* of boid.bounds.min or boid.bounds.max) changes no property of the Boids
\* object until updateProperties() is invoked, in every sequence of
\* dispatches and calls of updateProperties.
C25_QueuedUntilUpdateProperties ==
    [][ (pc = "manager" /\ ~lastCall.autoUpdate /\ DispatchStep) =>
           /\ params' = params
           /\ positions' = positions ]_vars

====
